---- MODULE Spec2Model ----
(***************************************************************************)
(* A model of the Macaron web framework's request path:                   *)
(*   - the routing tree (Tree.Add / Tree.Match) with its pattern parser,   *)
(*   - the response writer wrapper (WriteHeader / Write / Written),        *)
(*   - the dispatch loop of a request Context (run / Next / handler),      *)
(*   - the Router and Macaron registration calls and Router.ServeHTTP,     *)
(*   - the Renderer middleware's HTML calls on its shared TemplateSet.     *)
(* Go strings are modelled as sequences of one-character strings, so that  *)
(* splitting, trimming, pattern parsing and regular-expression matching    *)
(* are computed as the code computes them.                                 *)
(***************************************************************************)
EXTENDS Integers, Sequences, FiniteSets, TLC

VARIABLES
    tree,       \* routing tree of the tree specification: heap of Tree nodes, node 1 is the root
    added,      \* history: the patterns handed to Tree.Add so far, in call order
    lastAdd,    \* history: the last Tree.Add call [pattern, dup, before]
    lastMatch,  \* history: the last Tree.Match call [url, handle, params, ok]
    mhandlers,  \* Macaron.handlers: the global middleware list
    mcap,       \* cap(Macaron.handlers): the length of the array the list is stored in
    minj,       \* Macaron.Injector: the values mapped on the application, by type
    maction,    \* Macaron.action: the terminal action
    routers,    \* Router.routers: method -> routing tree
    routes,     \* the handler list captured by each registered route handle (handle id -> handlers)
    notFound,   \* Router.notFound: handler list given to NotFound, or the default set by New
    groups,     \* Router.groups: the stack of the Group calls being executed
    reg,        \* history: whether the last registration call panicked, and what each Handle call was given
    ctx,        \* the Context of the request in flight: handlers, action, index, Resp
    stack,      \* call stack of the request in flight: frames of run() and of invoked handlers
    log,        \* history: what the handlers of the request in flight did, in order
    req,        \* the request in flight: method, path, what ServeHTTP resolved it to
    render      \* the Renderer middleware: Env, its TemplateSet, the templates, the HTML calls in flight

vars == <<tree, added, lastAdd, lastMatch, mhandlers, mcap, minj, maction, routers, routes,
          notFound, groups, reg, ctx, stack, log, req, render>>

treeVars == <<tree, added, lastAdd, lastMatch>>
appVars == <<mhandlers, mcap, minj, maction, routers, routes, notFound, groups, reg>>
reqVars == <<ctx, stack, log, req>>
tplVars == <<render>>

----------------------------------------------------------------------------
(* Strings *)

EmptyStr == <<>>

Digits == {"0", "1", "2", "3", "4", "5", "6", "7", "8", "9"}

Letters == {"a", "b", "c", "d", "e", "f", "g", "h", "i", "j", "k", "l", "m",
            "n", "o", "p", "q", "r", "s", "t", "u", "v", "w", "x", "y", "z",
            "A", "B", "C", "D", "E", "F", "G", "H", "I", "J", "K", "L", "M",
            "N", "O", "P", "Q", "R", "S", "T", "U", "V", "W", "X", "Y", "Z"}

\* s[a+1..b] in TLA+ indexing: Go's s[a:b]
Slice(s, a, b) == IF b <= a THEN <<>> ELSE SubSeq(s, a + 1, b)

HasPrefixAt(s, sub, i) ==
    /\ i + Len(sub) <= Len(s)
    /\ \A k \in 1..Len(sub) : s[i + k] = sub[k]

\* strings.Index: 0-based index of the first occurrence of sub in s, or -1
Index(s, sub) ==
    LET hits == {i \in 0..Len(s) : HasPrefixAt(s, sub, i)}
    IN  IF hits = {} THEN -1 ELSE CHOOSE i \in hits : \A j \in hits : i <= j

\* strings.LastIndex
LastIndex(s, sub) ==
    LET hits == {i \in 0..Len(s) : HasPrefixAt(s, sub, i)}
    IN  IF hits = {} THEN -1 ELSE CHOOSE i \in hits : \A j \in hits : i >= j

Contains(s, sub) == Index(s, sub) >= 0

TrimPrefix(s, p) == IF HasPrefixAt(s, p, 0) THEN Slice(s, Len(p), Len(s)) ELSE s

TrimSuffix(s, p) ==
    IF Len(p) <= Len(s) /\ HasPrefixAt(s, p, Len(s) - Len(p))
    THEN Slice(s, 0, Len(s) - Len(p)) ELSE s

\* strings.TrimLeft(s, "?"): drops every leading '?'
RECURSIVE TrimLeftQ(_)
TrimLeftQ(s) == IF Len(s) > 0 /\ s[1] = "?" THEN TrimLeftQ(Tail(s)) ELSE s

\* strings.Replace(s, old, new, 1)
ReplaceFirst(s, old, new) ==
    LET i == Index(s, old)
    IN  IF i < 0 THEN s ELSE Slice(s, 0, i) \o new \o Slice(s, i + Len(old), Len(s))

\* strings.Replace(s, old, new, -1) for a non-empty old
RECURSIVE ReplaceAll(_, _, _)
ReplaceAll(s, old, new) ==
    LET i == Index(s, old)
    IN  IF i < 0 THEN s
        ELSE Slice(s, 0, i) \o new \o ReplaceAll(Slice(s, i + Len(old), Len(s)), old, new)

\* strings.Split(s, sep) for a non-empty sep
RECURSIVE Split(_, _)
Split(s, sep) ==
    LET At(i) == IF i < 0 THEN <<s>>
                 ELSE <<Slice(s, 0, i)>> \o Split(Slice(s, i + Len(sep), Len(s)), sep)
    IN  At(Index(s, sep))

DigitChar(d) == CASE d = 0 -> "0" [] d = 1 -> "1" [] d = 2 -> "2" [] d = 3 -> "3"
                  [] d = 4 -> "4" [] d = 5 -> "5" [] d = 6 -> "6" [] d = 7 -> "7"
                  [] d = 8 -> "8" [] d = 9 -> "9"

\* com.ToStr of a non-negative int: its decimal digits
RECURSIVE ToStr(_)
ToStr(n) == IF n < 10 THEN <<DigitChar(n)>> ELSE ToStr(n \div 10) \o <<DigitChar(n % 10)>>

----------------------------------------------------------------------------
(* Regular expressions (Go's regexp, leftmost-first), for the forms route  *)
(* patterns compile to: literal characters, '.', and groups "(.+)" and     *)
(* "([0-9]+)".  A compiled expression is a sequence of items.              *)

AnyGroup == <<"(", ".", "+", ")">>
DigitGroup == <<"(", "[", "0", "-", "9", "]", "+", ")">>

\* regexp.MustCompile
RECURSIVE Compile(_)
Compile(p) ==
    IF Len(p) = 0 THEN <<>>
    ELSE IF HasPrefixAt(p, AnyGroup, 0)
         THEN <<[t |-> "grp", cls |-> "any"]>> \o Compile(Slice(p, Len(AnyGroup), Len(p)))
    ELSE IF HasPrefixAt(p, DigitGroup, 0)
         THEN <<[t |-> "grp", cls |-> "digit"]>> \o Compile(Slice(p, Len(DigitGroup), Len(p)))
    ELSE IF p[1] = "."
         THEN <<[t |-> "any", cls |-> "any"]>> \o Compile(Tail(p))
    ELSE <<[t |-> "lit", cls |-> p[1]]>> \o Compile(Tail(p))

InClass(c, cls) == IF cls = "digit" THEN c \in Digits ELSE TRUE

\* number of consecutive characters of class cls in s from 0-based position pos
RECURSIVE RunLen(_, _, _)
RunLen(s, pos, cls) ==
    IF pos < Len(s) /\ InClass(s[pos + 1], cls) THEN 1 + RunLen(s, pos + 1, cls) ELSE 0

NoMatch == [ok |-> FALSE, caps |-> <<>>, end |-> 0]

\* match items i..Len(re) of re against s at 0-based position pos; a group
\* takes the longest run first and gives back one character at a time
RECURSIVE MatchHere(_, _, _, _)
RECURSIVE MatchGroup(_, _, _, _, _)
MatchHere(re, i, s, pos) ==
    IF i > Len(re) THEN [ok |-> TRUE, caps |-> <<>>, end |-> pos]
    ELSE IF re[i].t = "grp"
         THEN MatchGroup(re, i, s, pos, RunLen(s, pos, re[i].cls))
    ELSE IF pos < Len(s) /\ (re[i].t = "any" \/ s[pos + 1] = re[i].cls)
         THEN MatchHere(re, i + 1, s, pos + 1)
    ELSE NoMatch

MatchGroup(re, i, s, pos, n) ==
    IF n < 1 THEN NoMatch
    ELSE LET rest == MatchHere(re, i + 1, s, pos + n)
         IN  IF rest.ok
             THEN [ok |-> TRUE, caps |-> <<Slice(s, pos, pos + n)>> \o rest.caps, end |-> rest.end]
             ELSE MatchGroup(re, i, s, pos, n - 1)

\* Regexp.FindStringSubmatch: the leftmost match and its groups, <<>> for nil
RECURSIVE FindFrom(_, _, _)
FindFrom(re, s, start) ==
    IF start > Len(s) THEN <<>>
    ELSE LET m == MatchHere(re, 1, s, start)
         IN  IF m.ok THEN <<Slice(s, start, m.end)>> \o m.caps
             ELSE FindFrom(re, s, start + 1)

FindStringSubmatch(re, s) == FindFrom(re, s, 0)

----------------------------------------------------------------------------
(* Pattern parsing *)

PATTERN_STATIC == 0
PATTERN_REGEXP == 1
PATTERN_PATH_EXT == 2
PATTERN_HOLDER == 3
PATTERN_MATCH_ALL == 4

IsAlnum(c) == c \in Letters \/ c \in Digits

RECURSIVE AlnumRun(_, _)
AlnumRun(s, pos) == IF pos < Len(s) /\ IsAlnum(s[pos + 1]) THEN 1 + AlnumRun(s, pos + 1) ELSE 0

\* wildcardPattern.FindStringIndex for `:[a-zA-Z0-9]+`: <<from, to>>, <<>> for nil
WildcardIndex(pattern) ==
    LET hits == {i \in 0..(Len(pattern) - 1) : pattern[i + 1] = ":" /\ AlnumRun(pattern, i + 1) > 0}
    IN  IF hits = {} THEN <<>>
        ELSE LET i == CHOOSE i \in hits : \A j \in hits : i <= j
             IN  <<i, i + 1 + AlnumRun(pattern, i + 1)>>

IntSuffix == <<":", "i", "n", "t">>

getNextWildcard(pattern) ==
    LET Cut(p, pos) == Slice(p, 0, pos[1]) \o Slice(p, pos[2], Len(p))
        Holder(wildcard) == [wildcard |-> wildcard,
                             pattern |-> ReplaceFirst(pattern, wildcard, AnyGroup)]
        At(pos, wildcard) ==
            IF Len(pattern) = pos[2] THEN Holder(wildcard)
            ELSE IF pattern[pos[2] + 1] # "("
                 THEN IF Len(pattern) >= pos[2] + 4 /\ Slice(pattern, pos[2], pos[2] + 4) = IntSuffix
                      THEN [wildcard |-> wildcard,
                            pattern |-> Cut(ReplaceAll(pattern, IntSuffix, DigitGroup), pos)]
                      ELSE Holder(wildcard)
            ELSE [wildcard |-> wildcard, pattern |-> Cut(pattern, pos)]
        From(pos) ==
            IF pos = <<>> THEN [wildcard |-> EmptyStr, pattern |-> pattern]
            ELSE At(pos, Slice(pattern, pos[1], pos[2]))
    IN  From(WildcardIndex(pattern))

RECURSIVE getWildcards(_)
getWildcards(pattern) ==
    LET Cons(wildcard, rest) == [pattern |-> rest.pattern,
                                 wildcards |-> <<wildcard>> \o rest.wildcards]
        After(nx) ==
            IF Len(nx.wildcard) > 0 THEN Cons(nx.wildcard, getWildcards(nx.pattern))
            ELSE [pattern |-> nx.pattern, wildcards |-> <<>>]
    IN  After(getNextWildcard(pattern))

NoReg == <<>>

checkPattern(pattern0) ==
    LET Wild(w) ==
            IF w.pattern = AnyGroup
            THEN [typ |-> PATTERN_HOLDER, wildcards |-> w.wildcards, reg |-> NoReg]
            ELSE [typ |-> PATTERN_REGEXP, wildcards |-> w.wildcards, reg |-> Compile(w.pattern)]
        Check(pattern) ==
            IF pattern = <<"*">>
            THEN [typ |-> PATTERN_MATCH_ALL, wildcards |-> <<>>, reg |-> NoReg]
            ELSE IF pattern = <<"*", ".", "*">>
            THEN [typ |-> PATTERN_PATH_EXT, wildcards |-> <<>>, reg |-> NoReg]
            ELSE IF Contains(pattern, <<":">>)
            THEN Wild(getWildcards(pattern))
            ELSE [typ |-> PATTERN_STATIC, wildcards |-> <<>>, reg |-> NoReg]
    IN  Check(TrimLeftQ(pattern0))

----------------------------------------------------------------------------
(* The routing tree.  A tree is a heap of nodes: node ids are positions in *)
(* the heap, node 1 is the root, parent 0 is the nil parent.               *)

NilHandle == 0

NewLeaf(parent, pattern, handle) ==
    LET Of(c) == [parent |-> parent, typ |-> c.typ, pattern |-> pattern,
                  wildcards |-> c.wildcards, reg |-> c.reg,
                  optional |-> (Len(pattern) > 0 /\ pattern[1] = "?"), handle |-> handle]
    IN  Of(checkPattern(pattern))

NewSubtree(parent, pattern) ==
    LET Of(c) == [parent |-> parent, typ |-> c.typ, pattern |-> pattern,
                  wildcards |-> c.wildcards, reg |-> c.reg, subtrees |-> <<>>, leaves |-> <<>>]
    IN  Of(checkPattern(pattern))

NewTree == <<NewSubtree(0, EmptyStr)>>

\* mutant of InsertAt: entries are kept in registration order
InsertAt_Append(typs, typ) == Len(typs) + 1

\* mutant of InsertAt: an entry goes before the entries of its own kind
InsertAt_BeforeEqual(typs, typ) ==
    LET later == {i \in 1..Len(typs) : typ <= typs[i]}
    IN  IF later = {} THEN Len(typs) + 1 ELSE CHOOSE i \in later : \A j \in later : i <= j

\* the slot an entry of kind typ is inserted at: before the first entry of a greater kind
InsertAt(typs, typ) ==
    LET later == {i \in 1..Len(typs) : typ < typs[i]}
    IN  IF later = {} THEN Len(typs) + 1 ELSE CHOOSE i \in later : \A j \in later : i <= j

InsertSeq(q, i, x) == SubSeq(q, 1, i - 1) \o <<x>> \o SubSeq(q, i, Len(q))

RECURSIVE addLeaf(_, _, _, _)
\* mutant of addLeaf: no check for a leaf with the same pattern
addLeaf_NoDupCheck(heap, t, pattern, handle) ==
    LET leaf == NewLeaf(t, pattern, handle)
        leaves == heap[t].leaves
        i == InsertAt([k \in 1..Len(leaves) |-> leaves[k].typ], leaf.typ)
    IN  [heap |-> [heap EXCEPT ![t].leaves = InsertSeq(leaves, i, leaf)], dup |-> FALSE]

addLeaf(heap, t, pattern, handle) ==
    IF \E i \in 1..Len(heap[t].leaves) : heap[t].leaves[i].pattern = pattern
    THEN [heap |-> heap, dup |-> TRUE]
    ELSE LET leaf == NewLeaf(t, pattern, handle)
             heap1 == IF leaf.optional
                      THEN IF heap[t].parent # 0
                           THEN addLeaf(heap, heap[t].parent, heap[t].pattern, handle).heap
                           ELSE addLeaf(heap, t, EmptyStr, handle).heap
                      ELSE heap
             leaves == heap1[t].leaves
             i == InsertAt([k \in 1..Len(leaves) |-> leaves[k].typ], leaf.typ)
         IN  [heap |-> [heap1 EXCEPT ![t].leaves = InsertSeq(leaves, i, leaf)], dup |-> FALSE]

RECURSIVE addSubtree(_, _, _, _, _)
RECURSIVE addNextSegment(_, _, _, _)
addSubtree(heap, t, segment, pattern, handle) ==
    LET subs == heap[t].subtrees
        same == {i \in 1..Len(subs) : heap[subs[i]].pattern = segment}
    IN  IF same # {}
        THEN addNextSegment(heap, subs[CHOOSE i \in same : \A j \in same : i <= j], pattern, handle)
        ELSE LET subtree == NewSubtree(t, segment)
                 id == Len(heap) + 1
                 i == InsertAt([k \in 1..Len(subs) |-> heap[subs[k]].typ], subtree.typ)
                 heap1 == [Append(heap, subtree) EXCEPT ![t].subtrees = InsertSeq(subs, i, id)]
             IN  addNextSegment(heap1, id, pattern, handle)

addNextSegment(heap, t, pattern0, handle) ==
    LET pattern == TrimPrefix(pattern0, <<"/">>)
        i == Index(pattern, <<"/">>)
    IN  IF i = -1 THEN addLeaf(heap, t, pattern, handle)
        ELSE addSubtree(heap, t, Slice(pattern, 0, i), Slice(pattern, i + 1, Len(pattern)), handle)

TreeAdd(heap, pattern, handle) == addNextSegment(heap, 1, TrimSuffix(pattern, <<"/">>), handle)

\* params[key] = value on a Go map
SetParam(params, key, value) ==
    [k \in (DOMAIN params) \cup {key} |-> IF k = key THEN value ELSE params[k]]

NoParams == [k \in {} |-> EmptyStr]

Miss(params) == [handle |-> NilHandle, ok |-> FALSE, params |-> params]
Hit(handle, params) == [handle |-> handle, ok |-> TRUE, params |-> params]

RECURSIVE BindWildcards(_, _, _, _)
BindWildcards(params, wildcards, results, j) ==
    IF j > Len(wildcards) THEN params
    ELSE BindWildcards(SetParam(params, wildcards[j], results[j + 1]), wildcards, results, j + 1)

SplatKey(globLevel) == <<"*">> \o ToStr(globLevel)
PathKey == <<":", "p", "a", "t", "h">>
ExtKey == <<":", "e", "x", "t">>

\* mutant of PathExt: the split is at the first '.'
PathExt_FirstDot(params, url) ==
    LET j == Index(url, <<".">>)
    IN  IF j > -1
        THEN SetParam(SetParam(params, PathKey, Slice(url, 0, j)), ExtKey, Slice(url, j + 1, Len(url)))
        ELSE SetParam(params, PathKey, url)

\* the `*.*` split at the last '.'
PathExt(params, url) ==
    LET j == LastIndex(url, <<".">>)
    IN  IF j > -1
        THEN SetParam(SetParam(params, PathKey, Slice(url, 0, j)), ExtKey, Slice(url, j + 1, Len(url)))
        ELSE SetParam(params, PathKey, url)

RECURSIVE matchLeafFrom(_, _, _, _, _, _)
matchLeafFrom(heap, t, i, globLevel, url, params) ==
    IF i > Len(heap[t].leaves) THEN Miss(params)
    ELSE LET leaf == heap[t].leaves[i]
         IN  CASE leaf.typ = PATTERN_STATIC ->
                    IF leaf.pattern = url THEN Hit(leaf.handle, params)
                    ELSE matchLeafFrom(heap, t, i + 1, globLevel, url, params)
               [] leaf.typ = PATTERN_REGEXP ->
                    LET results == FindStringSubmatch(leaf.reg, url)
                    IN  IF Len(results) - 1 # Len(leaf.wildcards)
                        THEN matchLeafFrom(heap, t, i + 1, globLevel, url, params)
                        ELSE Hit(leaf.handle, BindWildcards(params, leaf.wildcards, results, 1))
               [] leaf.typ = PATTERN_PATH_EXT -> Hit(leaf.handle, PathExt(params, url))
               [] leaf.typ = PATTERN_HOLDER ->
                    Hit(leaf.handle, SetParam(params, leaf.wildcards[1], url))
               [] leaf.typ = PATTERN_MATCH_ALL ->
                    Hit(leaf.handle, SetParam(params, SplatKey(globLevel), url))

matchLeaf(heap, t, globLevel, url, params) == matchLeafFrom(heap, t, 1, globLevel, url, params)

\* mutant of matchLastLeaf: the catch-all captures the rest without the current segment
matchLastLeaf_RestOnly(heap, t, globLevel, segment, url, params) ==
    IF Len(heap[t].leaves) > 0 /\ heap[t].leaves[Len(heap[t].leaves)].typ = PATTERN_MATCH_ALL
    THEN Hit(heap[t].leaves[Len(heap[t].leaves)].handle, SetParam(params, SplatKey(globLevel), url))
    ELSE Miss(params)

\* the slot of the leaf of a node that was registered last
LastRegisteredSlot(leaves) ==
    CHOOSE i \in 1..Len(leaves) :
        \A j \in 1..Len(leaves) :
            leaves[j].handle < leaves[i].handle \/ (leaves[j].handle = leaves[i].handle /\ j <= i)

\* mutant of matchLastLeaf: the leaf looked at is the one registered last
matchLastLeaf_LastRegistered(heap, t, globLevel, segment, url, params) ==
    IF Len(heap[t].leaves) > 0
    THEN LET leaf == heap[t].leaves[LastRegisteredSlot(heap[t].leaves)]
         IN  IF leaf.typ = PATTERN_PATH_EXT
             THEN Hit(leaf.handle, PathExt(params, segment \o <<"/">> \o url))
             ELSE IF leaf.typ = PATTERN_MATCH_ALL
             THEN Hit(leaf.handle, SetParam(params, SplatKey(globLevel), segment \o <<"/">> \o url))
             ELSE Miss(params)
    ELSE Miss(params)

\* the tail of matchSubtree: the last leaf of the node takes the whole remainder
matchLastLeaf(heap, t, globLevel, segment, url, params) ==
    IF Len(heap[t].leaves) > 0
    THEN LET leaf == heap[t].leaves[Len(heap[t].leaves)]
         IN  IF leaf.typ = PATTERN_PATH_EXT
             THEN Hit(leaf.handle, PathExt(params, segment \o <<"/">> \o url))
             ELSE IF leaf.typ = PATTERN_MATCH_ALL
             THEN Hit(leaf.handle, SetParam(params, SplatKey(globLevel), segment \o <<"/">> \o url))
             ELSE Miss(params)
    ELSE Miss(params)

RECURSIVE matchSubtreeFrom(_, _, _, _, _, _, _)
RECURSIVE matchNextSegment(_, _, _, _, _)
matchSubtreeFrom(heap, t, i, globLevel, segment, url, params) ==
    IF i > Len(heap[t].subtrees) THEN matchLastLeaf(heap, t, globLevel, segment, url, params)
    ELSE LET id == heap[t].subtrees[i]
             sub == heap[id]
         IN  CASE sub.typ = PATTERN_STATIC ->
                    IF sub.pattern = segment
                    THEN LET r == matchNextSegment(heap, id, globLevel, url, params)
                         IN  IF r.ok THEN r
                             ELSE matchSubtreeFrom(heap, t, i + 1, globLevel, segment, url, r.params)
                    ELSE matchSubtreeFrom(heap, t, i + 1, globLevel, segment, url, params)
               [] sub.typ = PATTERN_REGEXP ->
                    LET results == FindStringSubmatch(sub.reg, segment)
                    IN  IF Len(results) - 1 # Len(sub.wildcards)
                        THEN matchSubtreeFrom(heap, t, i + 1, globLevel, segment, url, params)
                        ELSE LET bound == BindWildcards(params, sub.wildcards, results, 1)
                                 r == matchNextSegment(heap, id, globLevel, url, bound)
                             IN  IF r.ok THEN r
                                 ELSE matchSubtreeFrom(heap, t, i + 1, globLevel, segment, url, r.params)
               [] sub.typ = PATTERN_HOLDER ->
                    LET r == matchNextSegment(heap, id, globLevel + 1, url, params)
                    IN  IF r.ok THEN Hit(r.handle, SetParam(r.params, sub.wildcards[1], segment))
                        ELSE matchSubtreeFrom(heap, t, i + 1, globLevel, segment, url, r.params)
               [] sub.typ = PATTERN_MATCH_ALL ->
                    LET r == matchNextSegment(heap, id, globLevel + 1, url, params)
                    IN  IF r.ok THEN Hit(r.handle, SetParam(r.params, SplatKey(globLevel), segment))
                        ELSE matchSubtreeFrom(heap, t, i + 1, globLevel, segment, url, r.params)
               [] sub.typ = PATTERN_PATH_EXT ->
                    matchSubtreeFrom(heap, t, i + 1, globLevel, segment, url, params)

matchNextSegment(heap, t, globLevel, url, params) ==
    LET i == Index(url, <<"/">>)
    IN  IF i = -1 THEN matchLeaf(heap, t, globLevel, url, params)
        ELSE matchSubtreeFrom(heap, t, 1, globLevel, Slice(url, 0, i), Slice(url, i + 1, Len(url)), params)

TreeMatch(heap, url) ==
    matchNextSegment(heap, 1, 0, TrimSuffix(TrimPrefix(url, <<"/">>), <<"/">>), NoParams)

\* MatchTest: whether a tree holding the pattern alone matches the url
MatchTest(pattern, url) == TreeMatch(TreeAdd(NewTree, pattern, NilHandle).heap, url).ok

----------------------------------------------------------------------------
(* The response writer: the wrapper of part responseWriter around the      *)
(* server's http.ResponseWriter (code, body: what the client receives).    *)

StatusOK == 200

\* NewResponseWriter(method, rw) around a writer nothing was written to
NewResponseWriter(method) ==
    [method |-> method, status |-> 0, size |-> 0, code |-> 0, body |-> <<>>,
     beforeFuncs |-> <<>>, calls |-> <<>>]

\* responseWriter.Written
Written(rw) == rw.status # 0

\* responseWriter.Before
Before(rw, before) == [rw EXCEPT !.beforeFuncs = Append(@, before)]

\* responseWriter.callBefore: the before functions are called, last registered
\* first; calls keeps, for each call, whether Written() held when it was made
callBefore(rw) ==
    [rw EXCEPT !.calls = @ \o [i \in 1..Len(rw.beforeFuncs) |->
                                 [f |-> rw.beforeFuncs[Len(rw.beforeFuncs) - i + 1],
                                  written |-> Written(rw)]]]

\* responseWriter.WriteHeader: callBefore, then the wrapped writer, which keeps
\* the first status it is given, then rw.status
WriteHeader(rw, s) ==
    [callBefore(rw) EXCEPT !.code = IF rw.code = 0 THEN s ELSE rw.code, !.status = s]

\* responseWriter.Write
\* mutant of Write: the first Write does not set the implicit status
Write_NoStatus(rw, b) ==
    IF rw.method # "HEAD" THEN [rw EXCEPT !.body = rw.body \o b, !.size = rw.size + Len(b)] ELSE rw

Write(rw, b) ==
    LET rw1 == IF ~Written(rw) THEN WriteHeader(rw, StatusOK) ELSE rw
    IN  IF rw1.method # "HEAD"
        THEN [rw1 EXCEPT !.body = rw1.body \o b, !.size = rw1.size + Len(b)]
        ELSE rw1

\* httptest.NewRecorder(): a writer of its own, which a handler can map in
\* place of the wrapped one
NewRecorder == [code |-> 0, body |-> <<>>]
RecorderWriteHeader(rec, s) == [rec EXCEPT !.code = IF rec.code = 0 THEN s ELSE rec.code]
RecorderWrite(rec, b) == [RecorderWriteHeader(rec, StatusOK) EXCEPT !.body = rec.body \o b]

----------------------------------------------------------------------------
(* Handlers.  A handler is a Go function; the model keeps what it does to  *)
(* the Context as a list of steps (some work, a call of Next, a Write or a *)
(* WriteHeader on the response) and the values it returns.                 *)

Op(op, s, b) == [op |-> op, s |-> s, b |-> b, v |-> ""]
WorkOp == Op("work", 0, <<>>)
NextOp == Op("next", 0, <<>>)
WriteOp(b) == Op("write", 0, b)
HeaderOp(s) == Op("header", s, <<>>)
\* c.MapTo(v, (*http.ResponseWriter)(nil))
MapToOp(v) == [op |-> "mapto", s |-> 0, b |-> <<>>, v |-> v]
\* panic("here is a panic!")
PanicOp == Op("panic", 0, <<>>)

IntVal(i) == [kind |-> "int", i |-> i, s |-> <<>>]
StrVal(str) == [kind |-> "string", i |-> 0, s |-> str]

StatusBadRequest == 400
StatusTeapot == 418
StatusNotFound == 404
StatusInternalServerError == 500

HelloBody == <<"h", "i">>
EarlyBody == <<"w">>
PanicBody == <<"p">>
NotFoundBody == <<"4", "0", "4", " ", "N", "o", "t", " ", "F", "o", "u", "n", "d">>

\* func(c *Context) { work; c.Next(); work }
H_wrap == [name |-> "wrap", params |-> <<"Context">>, ops |-> <<WorkOp, NextOp, WorkOp>>, ret |-> <<>>]
\* func() { work }
H_plain == [name |-> "plain", params |-> <<>>, ops |-> <<WorkOp>>, ret |-> <<>>]
\* func(res http.ResponseWriter) { work; res.Write(...) }
H_write == [name |-> "write", params |-> <<"ResponseWriter">>, ops |-> <<WorkOp, WriteOp(EarlyBody)>>, ret |-> <<>>]
\* func(res http.ResponseWriter) { work; res.WriteHeader(http.StatusBadRequest) }
H_header == [name |-> "header", params |-> <<"ResponseWriter", "Request">>, ops |-> <<WorkOp, HeaderOp(StatusBadRequest)>>, ret |-> <<>>]
\* func(c *Context) { c.Next(); c.Next() }
H_twice == [name |-> "twice", params |-> <<"Context">>, ops |-> <<NextOp, NextOp>>, ret |-> <<>>]
\* func() {}: the action New installs
H_noop == [name |-> "noop", params |-> <<>>, ops |-> <<>>, ret |-> <<>>]
\* func() string { return "hi" }
H_retstr == [name |-> "retstr", params |-> <<>>, ops |-> <<>>, ret |-> <<StrVal(HelloBody)>>]
\* func() (int, string) { return 418, "hi" }
H_retint == [name |-> "retint", params |-> <<>>, ops |-> <<>>, ret |-> <<IntVal(StatusTeapot), StrVal(HelloBody)>>]
\* the handler New installs for unmatched requests: func() (int, string) { return 404, "404 Not Found" }
H_default404 == [name |-> "default404", params |-> <<"ResponseWriter">>, ops |-> <<>>,
                 ret |-> <<IntVal(StatusNotFound), StrVal(NotFoundBody)>>]

\* serveGzip: func(w, r, c) { c.MapTo(gzw, (*http.ResponseWriter)(nil)); c.Next(); ... }
H_gzip == [name |-> "gzip", params |-> <<"ResponseWriter", "Request", "Context">>,
           ops |-> <<MapToOp("gzw"), NextOp, WorkOp>>, ret |-> <<>>]
\* func(c *Context) { c.MapTo(recorder2, (*http.ResponseWriter)(nil)); panic("here is a panic!") }
H_mappanic == [name |-> "mappanic", params |-> <<"Context">>,
               ops |-> <<MapToOp("rec2"), PanicOp>>, ret |-> <<>>]
\* func(res http.ResponseWriter, req *http.Request) { panic("here is a panic!") }
H_panic == [name |-> "panic", params |-> <<"ResponseWriter", "Request">>, ops |-> <<PanicOp>>, ret |-> <<>>]
\* Recovery(): func(c *Context, log *log.Logger) { defer func() { recover() ... }(); c.Next() }
H_recovery == [name |-> "recovery", params |-> <<"Context", "Logger">>, ops |-> <<NextOp>>, ret |-> <<>>]
\* a handler with a parameter of a type nothing is mapped for
H_needs == [name |-> "needs", params |-> <<"Unmapped">>, ops |-> <<WorkOp>>, ret |-> <<>>]

\* func(res http.ResponseWriter) string { res.Write(...); return "hi" }
H_writeret == [name |-> "writeret", params |-> <<"ResponseWriter">>, ops |-> <<WriteOp(EarlyBody)>>,
               ret |-> <<StrVal(HelloBody)>>]
\* func(c *Context) { c.Resp.Write(...); c.Next() }
H_writenext == [name |-> "writenext", params |-> <<"Context">>, ops |-> <<WriteOp(EarlyBody), NextOp>>,
                ret |-> <<>>]

\* a value that is not a function, e.g. the number 42
H_notfunc == [name |-> "42", params |-> <<>>, ops |-> <<>>, ret |-> <<>>]

\* validateHandler: true when it returns, false when it panics
validateHandler(h) == h # H_notfunc

HandlerKinds == {H_wrap, H_plain, H_write, H_header, H_twice, H_retstr, H_retint,
                 H_gzip, H_panic, H_mappanic, H_recovery, H_needs, H_writeret, H_writenext}
ActionKinds == {H_plain, H_header}
Methods == {"GET", "HEAD"}

NoHandler == [name |-> "none", params |-> <<>>, ops |-> <<>>, ret |-> <<>>]
PanicInvalidIndex == [name |-> "panic: invalid index for context handler", params |-> <<>>, ops |-> <<>>, ret |-> <<>>]

----------------------------------------------------------------------------
(* The Context of a request and its dispatch loop *)

\* inject.New: nothing mapped
NewInjector == [t \in {} |-> ""]

\* Injector.Map / Injector.MapTo: the value is stored under the type, replacing
\* what was stored under it
MapTo(inj, t, v) == [k \in (DOMAIN inj) \cup {t} |-> IF k = t THEN v ELSE inj[k]]

NoValue == ""

\* Injector.GetVal: the injector's own value for the type, else its parent's
GetVal(inj, parent, t) ==
    IF t \in DOMAIN inj THEN inj[t]
    ELSE IF t \in DOMAIN parent THEN parent[t]
    ELSE NoValue

\* the injector of an application made by New: m.Map(m.logger), m.Map(defaultReturnHandler())
AppInjector == MapTo(MapTo(NewInjector, "Logger", "logger"), "ReturnHandler", "returnHandler")

\* mutant of ContextInjector: the response writer is not mapped on the Context
ContextInjector_NoWriter == MapTo(MapTo(NewInjector, "Context", "ctx"), "Request", "req")

\* createContext: c.Map(c), c.MapTo(c.rw, (*http.ResponseWriter)(nil)), c.Map(req)
ContextInjector ==
    MapTo(MapTo(MapTo(NewInjector, "Context", "ctx"), "ResponseWriter", "rw"), "Request", "req")

\* Macaron.createContext followed by the assignment of the request's handler list
createContext(handlers, action, method, params) ==
    [handlers |-> handlers, action |-> action, index |-> 0, params |-> params,
     Resp |-> NewResponseWriter(method), inj |-> ContextInjector, shared |-> FALSE]

\* Context.handler
handler(c) ==
    IF c.index < Len(c.handlers) THEN c.handlers[c.index + 1]
    ELSE IF c.index = Len(c.handlers) THEN c.action
    ELSE PanicInvalidIndex

\* the ReturnHandler New maps: (int, string) writes the status and the body,
\* a single string writes the body
ReturnHandler(rw, vals) ==
    IF Len(vals) > 1 /\ vals[1].kind = "int"
    THEN Write(WriteHeader(rw, vals[1].i), vals[2].s)
    ELSE Write(rw, vals[1].s)

\* an activation: of run, or of a handler, which holds the response writer
\* that was bound when it was invoked
RunFrame == [k |-> "run", h |-> 0, pc |-> 0, w |-> ""]
HandlerFrame(h, w) == [k |-> "handler", h |-> h, pc |-> 1, w |-> w]

Top == stack[Len(stack)]
Pop(st) == SubSeq(st, 1, Len(st) - 1)
Running == stack # <<>>

\* the function a handler frame executes
FrameHandler(f) == handler([ctx EXCEPT !.index = f.h])

AtOp(op) ==
    /\ Running
    /\ Top.k = "handler"
    /\ Top.pc <= Len(FrameHandler(Top).ops)
    /\ FrameHandler(Top).ops[Top.pc].op = op

Event(h, ev, pc) == [h |-> h, ev |-> ev, pc |-> pc, args |-> <<>>]

\* Injector.Invoke: the value each parameter of the handler resolves to
Args(c, h) == [i \in 1..Len(h.params) |-> GetVal(c.inj, minj, h.params[i])]
\* Invoke returns no error (it reflects on the function's type, and panics on a
\* value that is not a function)
Resolvable(c, h) ==
    /\ h # H_notfunc
    /\ \A i \in 1..Len(h.params) : GetVal(c.inj, minj, h.params[i]) # NoValue

InvokeEvent(h, args) == [h |-> h, ev |-> "invoke", pc |-> 0, args |-> args]

\* a handler on the stack that has deferred a recover()
RecoveryFrames == {i \in 1..Len(stack) : stack[i].k = "handler" /\ FrameHandler(stack[i]) = H_recovery}
Innermost(frames) == CHOOSE i \in frames : \A j \in frames : j <= i

\* a panic raised by handler h: every activation above the innermost handler
\* with a deferred recover() is abandoned and that handler's deferred function
\* answers 500; with no such handler the panic leaves ServeHTTP
Panic(h, pc) ==
    IF RecoveryFrames = {}
    THEN /\ stack' = <<>>
         /\ req' = [req EXCEPT !.panic = TRUE]
         /\ log' = Append(log, Event(h, "panic", pc))
         /\ ctx' = ctx
    ELSE /\ stack' = [SubSeq(stack, 1, Innermost(RecoveryFrames))
                         EXCEPT ![Innermost(RecoveryFrames)].pc = Len(H_recovery.ops) + 1]
         /\ log' = log \o <<Event(h, "panic", pc),
                             Event(stack[Innermost(RecoveryFrames)].h, "recover", 0)>>
         /\ IF GetVal(ctx.inj, minj, "ResponseWriter") = "rec2"
            THEN /\ req' = [req EXCEPT !.rec2 = RecorderWrite(
                                   RecorderWriteHeader(@, StatusInternalServerError), PanicBody)]
                 /\ ctx' = ctx
            ELSE /\ ctx' = [ctx EXCEPT !.Resp =
                                   Write(WriteHeader(@, StatusInternalServerError), PanicBody)]
                 /\ req' = req

Advance(st) == [st EXCEPT ![Len(st)].pc = @ + 1]

\* mutant of RunInvoke: a handler is invoked whether or not its parameters resolve
RunInvoke_ZeroValues ==
    /\ Running
    /\ Top.k = "run"
    /\ ctx.index <= Len(ctx.handlers)
    /\ stack' = Append(stack, HandlerFrame(ctx.index, GetVal(ctx.inj, minj, "ResponseWriter")))
    /\ log' = Append(log, InvokeEvent(ctx.index, Args(ctx, handler(ctx))))
    /\ UNCHANGED <<ctx, req, treeVars, tplVars, appVars>>

\* run: the loop condition holds and the handler at the index is invoked
RunInvoke ==
    /\ Running
    /\ Top.k = "run"
    /\ ctx.index <= Len(ctx.handlers)
    /\ handler(ctx) # PanicInvalidIndex
    /\ Resolvable(ctx, handler(ctx))
    /\ stack' = Append(stack, HandlerFrame(ctx.index, GetVal(ctx.inj, minj, "ResponseWriter")))
    /\ log' = Append(log, InvokeEvent(ctx.index, Args(ctx, handler(ctx))))
    /\ UNCHANGED <<ctx, req, treeVars, tplVars, appVars>>

\* run: Invoke finds no value for a parameter of the handler and run panics
InvokePanic ==
    /\ Running
    /\ Top.k = "run"
    /\ ctx.index <= Len(ctx.handlers)
    /\ ~Resolvable(ctx, handler(ctx))
    /\ Panic(ctx.index, 0)
    /\ UNCHANGED <<treeVars, tplVars, appVars>>

\* run: the loop condition fails and run returns to its caller
RunReturn ==
    /\ Running
    /\ Top.k = "run"
    /\ ctx.index > Len(ctx.handlers)
    /\ stack' = Pop(stack)
    /\ UNCHANGED <<ctx, log, req, treeVars, tplVars, appVars>>

\* a handler does work that does not touch the Context
Work ==
    /\ AtOp("work")
    /\ stack' = Advance(stack)
    /\ log' = Append(log, Event(Top.h, "work", Top.pc))
    /\ UNCHANGED <<ctx, req, treeVars, tplVars, appVars>>

\* mutant of Next: the index is advanced but the rest of the chain is not run
Next_NoRun ==
    /\ AtOp("next")
    /\ ctx' = [ctx EXCEPT !.index = @ + 1]
    /\ stack' = Advance(stack)
    /\ log' = Append(log, Event(Top.h, "next", Top.pc))
    /\ UNCHANGED <<req, treeVars, tplVars, appVars>>

\* mutant of Next: run is entered without advancing the index
Next_NoAdvance ==
    /\ AtOp("next")
    /\ stack' = Append(Advance(stack), RunFrame)
    /\ log' = Append(log, Event(Top.h, "next", Top.pc))
    /\ UNCHANGED <<ctx, req, treeVars, tplVars, appVars>>

\* a handler calls c.Next(): the index is advanced and run is entered
Next ==
    /\ AtOp("next")
    /\ ctx' = [ctx EXCEPT !.index = @ + 1]
    /\ stack' = Append(Advance(stack), RunFrame)
    /\ log' = Append(log, Event(Top.h, "next", Top.pc))
    /\ UNCHANGED <<req, treeVars, tplVars, appVars>>

\* a handler calls Write on the response
DoWrite ==
    /\ AtOp("write")
    /\ IF Top.w = "rec2"
       THEN /\ req' = [req EXCEPT !.rec2 = RecorderWrite(@, FrameHandler(Top).ops[Top.pc].b)]
            /\ ctx' = ctx
       ELSE /\ ctx' = [ctx EXCEPT !.Resp = Write(@, FrameHandler(Top).ops[Top.pc].b)]
            /\ req' = req
    /\ stack' = Advance(stack)
    /\ log' = Append(log, Event(Top.h, "write", Top.pc))
    /\ UNCHANGED <<treeVars, tplVars, appVars>>

\* a handler calls WriteHeader on the response
DoWriteHeader ==
    /\ AtOp("header")
    /\ IF Top.w = "rec2"
       THEN /\ req' = [req EXCEPT !.rec2 = RecorderWriteHeader(@, FrameHandler(Top).ops[Top.pc].s)]
            /\ ctx' = ctx
       ELSE /\ ctx' = [ctx EXCEPT !.Resp = WriteHeader(@, FrameHandler(Top).ops[Top.pc].s)]
            /\ req' = req
    /\ stack' = Advance(stack)
    /\ log' = Append(log, Event(Top.h, "header", Top.pc))
    /\ UNCHANGED <<treeVars, tplVars, appVars>>

\* a handler calls c.MapTo(v, (*http.ResponseWriter)(nil))
DoMapTo ==
    /\ AtOp("mapto")
    /\ ctx' = [ctx EXCEPT !.inj = MapTo(@, "ResponseWriter", FrameHandler(Top).ops[Top.pc].v)]
    /\ stack' = Advance(stack)
    /\ log' = Append(log, [Event(Top.h, "mapto", Top.pc)
                             EXCEPT !.args = <<FrameHandler(Top).ops[Top.pc].v>>])
    /\ UNCHANGED <<req, treeVars, tplVars, appVars>>

\* a handler panics
DoPanic ==
    /\ AtOp("panic")
    /\ Panic(Top.h, Top.pc)
    /\ UNCHANGED <<treeVars, tplVars, appVars>>

\* run after Invoke: the handler has returned, the index is advanced, the returned
\* values go to the ReturnHandler, and run returns if the response is written
HandlerReturn ==
    /\ Running
    /\ Top.k = "handler"
    /\ Top.pc > Len(FrameHandler(Top).ops)
    /\ LET vals == FrameHandler(Top).ret
           resp == IF Len(vals) > 0 THEN ReturnHandler(ctx.Resp, vals) ELSE ctx.Resp
       IN  /\ ctx' = [ctx EXCEPT !.index = @ + 1, !.Resp = resp]
           /\ stack' = IF Written(resp) THEN Pop(Pop(stack)) ELSE Pop(stack)
    /\ log' = Append(log, Event(Top.h, "return", Top.pc))
    /\ UNCHANGED <<req, treeVars, tplVars, appVars>>

Dispatch ==
    \/ RunInvoke
    \/ InvokePanic
    \/ RunReturn
    \/ Work
    \/ Next
    \/ DoWrite
    \/ DoWriteHeader
    \/ DoMapTo
    \/ DoPanic
    \/ HandlerReturn

----------------------------------------------------------------------------
(* The application and its router *)

HTTP_METHODS == {"GET", "POST", "PUT", "DELETE", "PATCH", "OPTIONS", "HEAD"}

NoRouters == [m \in {} |-> NewTree]

\* the handler list of a request: append(r.m.handlers, handlers...)
\* mutant: the global middleware is left out
appendHandlers_RouteOnly(mh, handlers) == handlers

appendHandlers(mh, handlers) == mh \o handlers

\* Router.handle: the route is added to the tree of every method it names,
\* a tree being created for a method that has none
Router_handle(rs, method, pattern, h) ==
    LET methods == IF method = "*" THEN HTTP_METHODS ELSE {method}
        TreeOf(m) == IF m \in DOMAIN rs THEN rs[m] ELSE NewTree
    IN  [m \in (DOMAIN rs) \cup methods |->
            IF m \in methods THEN TreeAdd(TreeOf(m), pattern, h).heap ELSE rs[m]]

SplatName == <<":", "s", "p", "l", "a", "t">>

\* Router.ServeHTTP on a match: ":splat" is also stored as "*" and its
\* "/"-separated parts under their indices
splatParams(params) ==
    IF SplatName \in DOMAIN params
    THEN LET WithList(splatlist) ==
                 [k \in (DOMAIN params) \cup {<<"*">>} \cup {ToStr(i - 1) : i \in 1..Len(splatlist)} |->
                     IF \E i \in 1..Len(splatlist) : k = ToStr(i - 1)
                     THEN splatlist[CHOOSE i \in 1..Len(splatlist) : k = ToStr(i - 1)]
                     ELSE IF k = <<"*">> THEN params[SplatName]
                     ELSE params[k]]
         IN  WithList(Split(params[SplatName], <<"/">>))
    ELSE params

\* no request is being served
IdleCtx == [handlers |-> <<>>, action |-> NoHandler, index |-> 0, params |-> NoParams,
            Resp |-> NewResponseWriter("GET"), inj |-> NewInjector, shared |-> FALSE]
IdleReq == [active |-> FALSE, method |-> "GET", url |-> EmptyStr, found |-> FALSE,
            handle |-> NilHandle, panic |-> FALSE, rec2 |-> NewRecorder]

\* no registration call made yet
NoCalls == [panic |-> FALSE, mw |-> [op |-> "New", arg |-> <<>>], routes |-> <<>>]

\* New: no middleware, an empty action, no routes, and for unmatched requests
\* the handler answering 404
New ==
    /\ mhandlers = <<>>
    /\ mcap = 0
    /\ minj = AppInjector
    /\ maction = H_noop
    /\ routers = NoRouters
    /\ routes = <<>>
    /\ notFound = [configured |-> FALSE, handlers |-> <<H_default404>>]
    /\ groups = <<>>
    /\ reg = NoCalls

\* append(s, x) for a slice of length n and capacity c: the capacity of the result
\* (the array is kept while it has room, and doubled otherwise)
appendCap(n, c) == IF n < c THEN c ELSE IF c = 0 THEN 1 ELSE 2 * c

\* Macaron.Use: validateHandler, then append
Use(h) ==
    /\ ~req.active
    /\ IF validateHandler(h)
       THEN /\ mhandlers' = Append(mhandlers, h)
            /\ mcap' = appendCap(Len(mhandlers), mcap)
            /\ reg' = [reg EXCEPT !.panic = FALSE, !.mw = [op |-> "Use", arg |-> <<h>>]]
       ELSE /\ UNCHANGED <<mhandlers, mcap>>
            /\ reg' = [reg EXCEPT !.panic = TRUE, !.mw = [op |-> "Use", arg |-> <<h>>]]
    /\ UNCHANGED <<minj, maction, routers, routes, notFound, groups, reqVars, treeVars, tplVars>>

\* the handlers Use accepts before the first one it panics on
RECURSIVE UsedPrefix(_)
UsedPrefix(handlers) ==
    IF handlers = <<>> \/ ~validateHandler(Head(handlers)) THEN <<>>
    ELSE <<Head(handlers)>> \o UsedPrefix(Tail(handlers))

\* the capacity after n Use calls on an empty slice
RECURSIVE capAfter(_)
capAfter(n) == IF n = 0 THEN 0 ELSE appendCap(n - 1, capAfter(n - 1))

\* mutant of Handlers: the middleware list is not cleared first
Handlers_Append(handlers) ==
    /\ ~req.active
    /\ mhandlers' = mhandlers \o UsedPrefix(handlers)
    /\ mcap' = capAfter(Len(mhandlers) + Len(UsedPrefix(handlers)))
    /\ reg' = [reg EXCEPT !.panic = UsedPrefix(handlers) # handlers,
                          !.mw = [op |-> "Handlers", arg |-> handlers]]
    /\ UNCHANGED <<minj, maction, routers, routes, notFound, groups, reqVars, treeVars, tplVars>>

\* Macaron.Handlers: m.handlers = make([]Handler, 0), then Use for each handler
Handlers(handlers) ==
    /\ ~req.active
    /\ mhandlers' = UsedPrefix(handlers)
    /\ mcap' = capAfter(Len(UsedPrefix(handlers)))
    /\ reg' = [reg EXCEPT !.panic = UsedPrefix(handlers) # handlers,
                          !.mw = [op |-> "Handlers", arg |-> handlers]]
    /\ UNCHANGED <<minj, maction, routers, routes, notFound, groups, reqVars, treeVars, tplVars>>

\* Macaron.Action: validateHandler, then m.action = handler
Action(h) ==
    /\ ~req.active
    /\ maction' = IF validateHandler(h) THEN h ELSE maction
    /\ reg' = [reg EXCEPT !.panic = ~validateHandler(h)]
    /\ UNCHANGED <<mhandlers, mcap, minj, routers, routes, notFound, groups, reqVars, treeVars, tplVars>>

\* Router.Handle, the loop over r.groups: the patterns of the groups, joined
RECURSIVE groupPattern(_)
groupPattern(gs) == IF gs = <<>> THEN EmptyStr ELSE Head(gs).pattern \o groupPattern(Tail(gs))

\* mutant of groupHandlers: the innermost group's handlers come first
RECURSIVE groupHandlers_InnerFirst(_)
groupHandlers_InnerFirst(gs) ==
    IF gs = <<>> THEN <<>> ELSE groupHandlers_InnerFirst(Tail(gs)) \o Head(gs).handlers

\* Router.Handle, the loop over r.groups: the handlers of the groups, joined
RECURSIVE groupHandlers(_)
groupHandlers(gs) == IF gs = <<>> THEN <<>> ELSE Head(gs).handlers \o groupHandlers(Tail(gs))

\* Router.Handle: the handle registered is the closure over the handlers given,
\* after those of the groups being executed
Handle(method, pattern, handlers) ==
    /\ ~req.active
    /\ method \in HTTP_METHODS \cup {"*"}
    /\ routes' = Append(routes, groupHandlers(groups) \o handlers)
    /\ routers' = Router_handle(routers, method, groupPattern(groups) \o pattern, Len(routes) + 1)
    /\ reg' = [reg EXCEPT !.panic = FALSE,
                          !.routes = Append(@, [method |-> method, pattern |-> pattern,
                                                handlers |-> handlers, groups |-> groups])]
    /\ UNCHANGED <<mhandlers, mcap, minj, maction, notFound, groups, reqVars, treeVars, tplVars>>

\* Router.Group up to the call of fn: the group is pushed
GroupEnter(pattern, h) ==
    /\ ~req.active
    /\ groups' = Append(groups, [pattern |-> pattern, handlers |-> h])
    /\ reg' = [reg EXCEPT !.panic = FALSE]
    /\ UNCHANGED <<mhandlers, mcap, minj, maction, routers, routes, notFound, reqVars, treeVars, tplVars>>

\* Router.Group after fn returned: the group is popped
GroupExit ==
    /\ ~req.active
    /\ groups # <<>>
    /\ groups' = SubSeq(groups, 1, Len(groups) - 1)
    /\ UNCHANGED <<mhandlers, mcap, minj, maction, routers, routes, notFound, reg, reqVars, treeVars, tplVars>>

\* Router.NotFound
NotFound(handlers) ==
    /\ ~req.active
    /\ notFound' = [configured |-> TRUE, handlers |-> handlers]
    /\ reg' = [reg EXCEPT !.panic = FALSE]
    /\ UNCHANGED <<mhandlers, mcap, minj, maction, routers, routes, groups, reqVars, treeVars, tplVars>>

\* append(r.m.handlers, handlers...) stores the handlers in the array of
\* m.handlers, after its elements, when the array has room for them
appendsInPlace(handlers) ==
    handlers # <<>> /\ Len(mhandlers) + Len(handlers) <= mcap

\* Router.ServeHTTP up to the call of run: the route's handle on a match,
\* the not-found function otherwise
ServeHTTP(method, url) ==
    LET Serve(m) ==
            /\ req' = [active |-> TRUE, method |-> method, url |-> url,
                       found |-> m.handle # NilHandle, handle |-> m.handle, panic |-> FALSE,
                       rec2 |-> NewRecorder]
            /\ ctx' = IF m.handle # NilHandle
                      THEN [createContext(appendHandlers(mhandlers, routes[m.handle]), maction,
                                          method, splatParams(m.params))
                               EXCEPT !.shared = appendsInPlace(routes[m.handle])]
                      ELSE [createContext(appendHandlers(mhandlers, notFound.handlers), maction,
                                          method, NoParams)
                               EXCEPT !.shared = appendsInPlace(notFound.handlers)]
    IN  /\ ~req.active
        /\ Serve(IF method \in DOMAIN routers THEN TreeMatch(routers[method], url)
                 ELSE Miss(NoParams))
        /\ stack' = <<RunFrame>>
        /\ log' = <<>>
        /\ UNCHANGED <<appVars, treeVars, tplVars>>

\* what the append of another request's handle leaves in the handler list of
\* the request in flight, when both were stored in the array of m.handlers
overwritten(handlers, other) ==
    [i \in 1..Len(handlers) |->
        IF i > Len(mhandlers) /\ i <= Len(mhandlers) + Len(other)
        THEN other[i - Len(mhandlers)]
        ELSE handlers[i]]

\* Router.ServeHTTP of a second request, served by another goroutine while the
\* first is in flight, up to the append of its handle.  When the append is in
\* place it writes the array the first request's list is stored in; the first
\* request has not yet read those elements (once it has, the write changes
\* nothing it does).
ConcurrentServe(method, url) ==
    LET Serve(handlers) ==
            ctx' = IF ctx.shared /\ appendsInPlace(handlers)
                   THEN [ctx EXCEPT !.handlers = overwritten(@, handlers)]
                   ELSE ctx
        Found(m) == IF m.handle # NilHandle THEN routes[m.handle] ELSE notFound.handlers
    IN  /\ req.active
        /\ Running
        /\ ctx.index < Len(mhandlers)
        /\ Serve(Found(IF method \in DOMAIN routers THEN TreeMatch(routers[method], url)
                       ELSE Miss(NoParams)))
        /\ UNCHANGED <<stack, log, req, appVars, treeVars, tplVars>>

\* run has returned to ServeHTTP and the request is over
Finish ==
    /\ req.active
    /\ ~Running
    /\ req' = IdleReq
    /\ ctx' = IdleCtx
    /\ log' = <<>>
    /\ UNCHANGED <<stack, appVars, treeVars, tplVars>>

----------------------------------------------------------------------------
(* The Renderer middleware.  renderHandler makes one TemplateSet, shared by *)
(* every request; each request gets a TplRender of its own that points to   *)
(* it.  A template is an object with a function map (yield, current); the   *)
(* model keeps the templates in a heap and what each HTML call in flight    *)
(* holds in its locals.                                                     *)

DEV == "development"
PROD == "production"

\* the closure addYield makes for "yield": it executes tplName with data
Closure(tplName, data) == [tplName |-> tplName, data |-> data]

\* helperFuncs: the yield and current every compiled template starts with
helperFuncs == [yield |-> Closure("", ""), current |-> ""]

\* compile: a new template with the helper functions
compile == helperFuncs

\* a render that nothing uses
NoRender == [env |-> DEV, sets |-> 0, tpls |-> <<>>, calls |-> <<>>]

\* r.HTML(200, tplName, data, HTMLOptions{Layout: layout}) about to enter renderBytes
HTMLCall(tplName, data, layout) ==
    [pc |-> "Get", tplName |-> tplName, data |-> data, layout |-> layout, name |-> tplName,
     t |-> 0, out |-> [name |-> "", data |-> "", yield |-> Closure("", ""), current |-> ""]]

\* renderBytes: t := r.TemplateSet.Get(setName)
TemplateSetGet(g) ==
    /\ render.calls[g].pc = "Get"
    /\ render' = [render EXCEPT !.calls[g].t = render.sets,
                                !.calls[g].pc = IF render.env = DEV THEN "Set" ELSE "addYield"]
    /\ UNCHANGED <<treeVars, appVars, reqVars>>

\* renderBytes in development: t = r.TemplateSet.Set(setName, &opt) compiles a
\* new template, stores it in the set and returns it
TemplateSetSet(g) ==
    /\ render.calls[g].pc = "Set"
    /\ render' = [render EXCEPT !.tpls = Append(@, compile),
                                !.sets = Len(render.tpls) + 1,
                                !.calls[g].t = Len(render.tpls) + 1,
                                !.calls[g].pc = "addYield"]
    /\ UNCHANGED <<treeVars, appVars, reqVars>>

\* renderBytes: with a layout, addYield sets yield and current on the template
\* t (t.Funcs(funcs)) and the layout becomes the template to execute
addYield(g) ==
    /\ render.calls[g].pc = "addYield"
    /\ IF render.calls[g].layout # ""
       THEN render' = [render EXCEPT
                          !.tpls[render.calls[g].t] =
                              [yield |-> Closure(render.calls[g].tplName, render.calls[g].data),
                               current |-> render.calls[g].tplName],
                          !.calls[g].name = render.calls[g].layout,
                          !.calls[g].pc = "execute"]
       ELSE render' = [render EXCEPT !.calls[g].pc = "execute"]
    /\ UNCHANGED <<treeVars, appVars, reqVars>>

\* r.execute(t, tplName, data): the template is executed with the call's data;
\* a layout calls the yield and current that t holds at that time
execute(g) ==
    /\ render.calls[g].pc = "execute"
    /\ render' = [render EXCEPT
                      !.calls[g].out =
                          [name |-> render.calls[g].name, data |-> render.calls[g].data,
                           yield |-> IF render.calls[g].layout # ""
                                     THEN render.tpls[render.calls[g].t].yield
                                     ELSE Closure("", ""),
                           current |-> IF render.calls[g].layout # ""
                                       THEN render.tpls[render.calls[g].t].current
                                       ELSE ""],
                      !.calls[g].pc = "done"]
    /\ UNCHANGED <<treeVars, appVars, reqVars>>

----------------------------------------------------------------------------
(* The tree specification: routes are added to one tree and URLs matched.  *)

MaxAdds == 3

P_u_id_re == <<"/", "u", "/", ":", "i", "d", "(", "[", "0", "-", "9", "]", "+", ")">>
P_u_star == <<"/", "u", "/", "*">>
P_pathext == <<"/", "*", ".", "*">>
P_u_opt_id == <<"/", "u", "/", "?", ":", "i", "d">>
P_opt_id == <<"/", "?", ":", "i", "d">>
P_u_opt_b == <<"/", "u", "/", "?", "b">>
P_x_b == <<"/", ":", "x", "/", "b">>
P_n_re_1 == <<"/", ":", "n", "(", "[", "0", "-", "9", "]", "+", ")", "/", "1">>
P_x_star == <<"/", ":", "x", "/", "*">>

Patterns == {P_u_id_re, P_u_star, P_pathext, P_u_opt_id, P_opt_id, P_u_opt_b,
             P_x_b, P_n_re_1, P_x_star}

U_root == <<"/">>
U_u == <<"/", "u">>
U_u_42 == <<"/", "u", "/", "4", "2">>
U_u_a4 == <<"/", "u", "/", "a", "4">>
U_u_b == <<"/", "u", "/", "b">>
U_u_a_b_c == <<"/", "u", "/", "a", "/", "b", "/", "c">>
U_r_f_c == <<"/", "r", ".", "f", ".", "c">>
U_rfc == <<"/", "r", "f", "c">>
U_4_b == <<"/", "4", "/", "b">>
U_4_1 == <<"/", "4", "/", "1">>
U_a_b_slash == <<"/", "a", ".", "b", "/", "c", "/">>
U_u_a_slash == <<"/", "u", "/", "a", "/">>

URLs == {U_root, U_u, U_u_42, U_u_a4, U_u_b, U_u_a_b_c, U_r_f_c, U_rfc, U_4_1, U_4_b,
         U_a_b_slash, U_u_a_slash}

NoMatchYet == [valid |-> FALSE, url |-> EmptyStr, handle |-> NilHandle, ok |-> FALSE,
               params |-> NoParams]
NoAddYet == [valid |-> FALSE, pattern |-> EmptyStr, dup |-> FALSE, handle |-> NilHandle,
             before |-> NewTree]

InitTree ==
    /\ tree = NewTree
    /\ render = NoRender
    /\ added = <<>>
    /\ lastAdd = NoAddYet
    /\ lastMatch = NoMatchYet
    /\ mhandlers = <<>>
    /\ mcap = 0
    /\ minj = NewInjector
    /\ maction = NoHandler
    /\ routers = NoRouters
    /\ routes = <<>>
    /\ notFound = [configured |-> FALSE, handlers |-> <<>>]
    /\ groups = <<>>
    /\ reg = NoCalls
    /\ ctx = IdleCtx
    /\ stack = <<>>
    /\ log = <<>>
    /\ req = IdleReq

\* t.Add(pattern, name, handle) with a handle of its own (a fresh closure)
Add(pattern) ==
    /\ Len(added) < MaxAdds
    /\ LET handle == Len(added) + 1
           r == TreeAdd(tree, pattern, handle)
       IN  /\ tree' = r.heap
           /\ lastAdd' = [valid |-> TRUE, pattern |-> pattern, dup |-> r.dup, handle |-> handle,
                          before |-> tree]
    /\ added' = Append(added, pattern)
    /\ lastMatch' = NoMatchYet
    /\ UNCHANGED <<appVars, reqVars, tplVars>>

\* t.Match(url)
Match(url) ==
    /\ LET r == TreeMatch(tree, url)
       IN  lastMatch' = [valid |-> TRUE, url |-> url, handle |-> r.handle, ok |-> r.ok,
                         params |-> r.params]
    /\ UNCHANGED <<tree, added, lastAdd, appVars, reqVars, tplVars>>

NextTree ==
    \/ \E pattern \in Patterns : Add(pattern)
    \/ \E url \in URLs : Match(url)

SpecTree == InitTree /\ [][NextTree]_vars

----------------------------------------------------------------------------
(* The dispatch specification: one request whose handler list, terminal    *)
(* action and method are any of the bounded choices, run to its end.       *)

MaxHandlers == 3

HandlerLists == UNION {[1..n -> HandlerKinds] : n \in 0..MaxHandlers}

InitDispatch ==
    /\ tree = NewTree
    /\ render = NoRender
    /\ added = <<>>
    /\ lastAdd = NoAddYet
    /\ lastMatch = NoMatchYet
    /\ mhandlers = <<>>
    /\ mcap = 0
    /\ minj = AppInjector
    /\ routers = NoRouters
    /\ routes = <<>>
    /\ notFound = [configured |-> FALSE, handlers |-> <<>>]
    /\ groups = <<>>
    /\ reg = NoCalls
    /\ \E handlers \in HandlerLists, action \in ActionKinds, method \in Methods :
          /\ maction = action
          /\ ctx = createContext(handlers, action, method, NoParams)
          /\ req = [active |-> TRUE, method |-> method, url |-> EmptyStr, found |-> TRUE,
                    handle |-> NilHandle, panic |-> FALSE, rec2 |-> NewRecorder]
    /\ stack = <<RunFrame>>
    /\ log = <<>>

SpecDispatch == InitDispatch /\ [][Dispatch]_vars

\* the same request under the scheduling of a goroutine that is never starved:
\* a step of the dispatch that can be taken is eventually taken
SpecDispatchFair == InitDispatch /\ [][Dispatch]_vars /\ WF_vars(Dispatch)

----------------------------------------------------------------------------
(* The router specification: middleware, routes and not-found handlers are *)
(* registered between requests, and requests are served one at a time.     *)

MaxUse == 2
MaxRoutes == 1

UseKinds == {H_wrap, H_write, H_gzip, H_recovery}
RouteMethods == {"GET", "*"}
RoutePatterns == {P_u_star, P_x_b}
RouteHandlerLists == {<<H_retstr>>, <<H_plain>>, <<H_panic>>, <<H_needs>>}
NotFoundLists == {<<H_plain, H_header>>, <<H_retint>>}
ServeMethods == {"GET", "POST"}
ServeURLs == {U_u_b, U_root}

InitRouter ==
    /\ New
    /\ tree = NewTree
    /\ render = NoRender
    /\ added = <<>>
    /\ lastAdd = NoAddYet
    /\ lastMatch = NoMatchYet
    /\ ctx = IdleCtx
    /\ req = IdleReq
    /\ stack = <<>>
    /\ log = <<>>

NextRouter ==
    \/ \E h \in UseKinds : Len(mhandlers) < MaxUse /\ Use(h)
    \/ \E method \in RouteMethods, pattern \in RoutePatterns, handlers \in RouteHandlerLists :
          Len(routes) < MaxRoutes /\ Handle(method, pattern, handlers)
    \/ \E handlers \in NotFoundLists : ~notFound.configured /\ NotFound(handlers)
    \/ \E method \in ServeMethods, url \in ServeURLs : ServeHTTP(method, url)
    \/ Dispatch
    \/ Finish

SpecRouter == InitRouter /\ [][NextRouter]_vars

----------------------------------------------------------------------------
(* Specification of a tree that is given routes which match the same paths: *)
(* a catch-all, two single captures and a static route under one node, and  *)
(* a static and a single-capture node next to that node.                    *)

P_u_a == <<"/", "u", "/", ":", "a">>
P_u_c == <<"/", "u", "/", ":", "c">>
P_u_b == <<"/", "u", "/", "b">>

P_v_b == <<"/", "v", "/", "b">>

OrderPatterns == {P_u_star, P_u_a, P_u_c, P_u_b, P_v_b, P_x_b}
OrderURLs == {U_u_b, U_u_42, U_u}

NextOrder ==
    \/ \E pattern \in OrderPatterns : Add(pattern)
    \/ \E url \in OrderURLs : Match(url)

SpecOrder == InitTree /\ [][NextOrder]_vars

----------------------------------------------------------------------------
(* Specification of the registration calls of an application: Use, Handlers,*)
(* Action, Handle and NotFound with callable and non-callable values, and   *)
(* the requests served afterwards.                                         *)

AppUseKinds == {H_wrap, H_notfunc}
AppHandlersLists == {<<>>, <<H_plain, H_plain>>, <<H_gzip, H_notfunc>>}
AppActionKinds == {H_header, H_notfunc}
AppRouteLists == {<<H_plain>>, <<H_write>>, <<H_panic>>, <<H_notfunc>>}
AppNotFoundLists == {<<H_retint>>, <<H_notfunc>>}

NextApp ==
    \/ \E h \in AppUseKinds : Len(mhandlers) < MaxUse /\ Use(h)
    \/ \E handlers \in AppHandlersLists : Handlers(handlers)
    \/ \E h \in AppActionKinds : maction = H_noop /\ Action(h)
    \/ \E handlers \in AppRouteLists :
          Len(routes) < MaxRoutes /\ Handle("GET", P_u_star, handlers)
    \/ \E handlers \in AppNotFoundLists : ~notFound.configured /\ NotFound(handlers)
    \/ \E url \in ServeURLs : ServeHTTP("GET", url)
    \/ Dispatch
    \/ Finish

SpecApp == InitRouter /\ [][NextApp]_vars

----------------------------------------------------------------------------
(* Specification of one response writer: the Context of a request is made   *)
(* and Before, WriteHeader and Write are called on its writer, up to        *)
(* MaxCalls calls in any order.                                            *)

MaxCalls == 4

BeforeFuncs == {"f", "g"}
WriterStatuses == {StatusBadRequest, StatusTeapot}
WriterBodies == {EarlyBody}

InitWriter ==
    /\ New
    /\ tree = NewTree
    /\ render = NoRender
    /\ added = <<>>
    /\ lastAdd = NoAddYet
    /\ lastMatch = NoMatchYet
    /\ \E method \in Methods : ctx = createContext(<<>>, maction, method, NoParams)
    /\ req = IdleReq
    /\ stack = <<>>
    /\ log = <<>>

\* a call made on the writer, with its argument
Call(name, arg) == [h |-> 0, ev |-> name, pc |-> 0, args |-> <<arg>>]

CallBefore(before) ==
    /\ Len(log) < MaxCalls
    /\ ctx' = [ctx EXCEPT !.Resp = Before(@, before)]
    /\ log' = Append(log, Call("Before", before))
    /\ UNCHANGED <<stack, req, treeVars, tplVars, appVars>>

CallWriteHeader(s) ==
    /\ Len(log) < MaxCalls
    /\ ctx' = [ctx EXCEPT !.Resp = WriteHeader(@, s)]
    /\ log' = Append(log, Call("WriteHeader", s))
    /\ UNCHANGED <<stack, req, treeVars, tplVars, appVars>>

CallWrite(b) ==
    /\ Len(log) < MaxCalls
    /\ ctx' = [ctx EXCEPT !.Resp = Write(@, b)]
    /\ log' = Append(log, Call("Write", b))
    /\ UNCHANGED <<stack, req, treeVars, tplVars, appVars>>

NextWriter ==
    \/ \E before \in BeforeFuncs : CallBefore(before)
    \/ \E s \in WriterStatuses : CallWriteHeader(s)
    \/ \E b \in WriterBodies : CallWrite(b)

SpecWriter == InitWriter /\ [][NextWriter]_vars

----------------------------------------------------------------------------
(* Specification of route groups: Group calls nested up to MaxGroups deep,  *)
(* routes registered inside and outside of them, and the requests served.   *)

MaxGroups == 2

G_u == <<"/", "u">>
G_x == <<"/", "x">>
P_b == <<"/", "b">>
U_b == <<"/", "b">>
U_u_x_b == <<"/", "u", "/", "x", "/", "b">>

GroupInputs == {[pattern |-> G_u, handlers |-> <<H_gzip>>],
                [pattern |-> G_x, handlers |-> <<H_plain>>]}
GroupRouteLists == {<<H_plain>>, <<H_write>>, <<H_header>>, <<H_panic>>, <<H_needs>>}
GroupURLs == {U_b, U_u_b, U_u_x_b}

NextGroups ==
    \/ Len(mhandlers) < MaxUse /\ Use(H_wrap)
    \/ \E g \in GroupInputs : Len(groups) < MaxGroups /\ GroupEnter(g.pattern, g.handlers)
    \/ GroupExit
    \/ \E handlers \in GroupRouteLists : Len(routes) < MaxRoutes /\ Handle("GET", P_b, handlers)
    \/ \E url \in GroupURLs : ServeHTTP("GET", url)
    \/ Dispatch
    \/ Finish

SpecGroups == InitRouter /\ [][NextGroups]_vars

----------------------------------------------------------------------------
(* Specification of an application that serves two requests at a time: the  *)
(* second request's handle runs while the first request is being dispatched.*)

ConcHandlersLists == {<<H_wrap, H_wrap>>, <<H_wrap, H_gzip, H_wrap>>}
ConcRouteLists == {<<H_write>>, <<H_panic>>, <<H_needs>>}
ConcNotFoundLists == {<<H_plain>>}

NextConcurrent ==
    \/ \E handlers \in ConcHandlersLists : mhandlers = <<>> /\ Handlers(handlers)
    \/ maction = H_noop /\ Action(H_header)
    \/ \E handlers \in ConcRouteLists :
          Len(routes) < MaxRoutes /\ Handle("GET", P_u_star, handlers)
    \/ \E handlers \in ConcNotFoundLists : ~notFound.configured /\ NotFound(handlers)
    \/ \E url \in ServeURLs : ServeHTTP("GET", url)
    \/ \E url \in ServeURLs : ConcurrentServe("GET", url)
    \/ Dispatch
    \/ Finish

SpecConcurrent == InitRouter /\ [][NextConcurrent]_vars

----------------------------------------------------------------------------
(* The render specification: two requests call HTML at the same time       *)
(* through the Renderer middleware of one application.                      *)

Goroutines == {1, 2}
TplNames == {"hello", "content"}
TplData == {"jeremy", "world"}
Layouts == {"", "layout"}

\* renderHandler has made the TemplateSet (ts.Set(DEFAULT_TPL_SET_NAME, &opt))
\* and both requests have reached their r.HTML call
InitRender ==
    /\ New
    /\ tree = NewTree
    /\ added = <<>>
    /\ lastAdd = NoAddYet
    /\ lastMatch = NoMatchYet
    /\ ctx = IdleCtx
    /\ req = IdleReq
    /\ stack = <<>>
    /\ log = <<>>
    /\ \E env \in {DEV, PROD} :
       \E calls \in [Goroutines -> {HTMLCall(n, d, l) : n \in TplNames, d \in TplData, l \in Layouts}] :
          render = [env |-> env, sets |-> 1, tpls |-> <<compile>>, calls |-> calls]

NextRender ==
    \E g \in Goroutines :
        \/ TemplateSetGet(g)
        \/ TemplateSetSet(g)
        \/ addYield(g)
        \/ execute(g)

SpecRender == InitRender /\ [][NextRender]_vars

----------------------------------------------------------------------------
(* Helpers of the tree properties *)

\* the route a node stands for: the patterns of its ancestors and its own
RECURSIVE NodePath(_, _)
NodePath(heap, t) ==
    IF heap[t].parent = 0 THEN EmptyStr
    ELSE NodePath(heap, heap[t].parent) \o <<"/">> \o heap[t].pattern

RECURSIVE NodeDepth(_, _)
NodeDepth(heap, t) == IF heap[t].parent = 0 THEN 0 ELSE 1 + NodeDepth(heap, heap[t].parent)

LeafRoute(heap, t, i) == NodePath(heap, t) \o <<"/">> \o heap[t].leaves[i].pattern

LeafIds(heap) == {<<t, i>> \in (1..Len(heap)) \X (1..MaxAdds + 1) : i <= Len(heap[t].leaves)}

\* the url as Match normalises it
Normal(url) == TrimSuffix(TrimPrefix(url, <<"/">>), <<"/">>)

\* the url without its first n segments
RECURSIVE DropSegments(_, _)
DropSegments(url, n) ==
    IF n = 0 THEN url
    ELSE LET i == Index(url, <<"/">>)
         IN  IF i = -1 THEN EmptyStr ELSE DropSegments(Slice(url, i + 1, Len(url)), n - 1)

RECURSIVE SegmentCount(_)
SegmentCount(url) ==
    LET i == Index(url, <<"/">>)
    IN  IF i = -1 THEN 1 ELSE 1 + SegmentCount(Slice(url, i + 1, Len(url)))

\* the leaves other than the given ones whose route, alone in a tree, matches the url
OtherMatching(heap, except, url) ==
    {l \in LeafIds(heap) \ except : MatchTest(LeafRoute(heap, l[1], l[2]), url)}

\* whether n is t or lies below t
RECURSIVE IsUnder(_, _, _)
IsUnder(heap, n, t) ==
    IF n = t THEN TRUE ELSE IF heap[n].parent = 0 THEN FALSE ELSE IsUnder(heap, heap[n].parent, t)

\* the last segment of a normalised url or of a pattern, and what precedes it
LastSegment(url) == Slice(url, LastIndex(url, <<"/">>) + 1, Len(url))
Dir(url) == Slice(url, 0, LastIndex(url, <<"/">>))

\* whether the expression matches the whole of s (some split of s among its items)
RECURSIVE FullFrom(_, _, _, _)
FullFrom(re, i, s, pos) ==
    IF i > Len(re) THEN pos = Len(s)
    ELSE IF re[i].t = "grp"
         THEN \E n \in 1..RunLen(s, pos, re[i].cls) : FullFrom(re, i + 1, s, pos + n)
    ELSE /\ pos < Len(s)
         /\ (re[i].t = "any" \/ s[pos + 1] = re[i].cls)
         /\ FullFrom(re, i + 1, s, pos + 1)

FullMatch(re, s) == FullFrom(re, 1, s, 0)

----------------------------------------------------------------------------
(* Properties of the tree specification *)

SpecificOverCatchAll ==
    {<<t, i, j>> \in (1..Len(tree)) \X (1..MaxAdds + 1) \X (1..MaxAdds + 1) :
        /\ i <= Len(tree[t].leaves) /\ j <= Len(tree[t].leaves)
        /\ tree[t].leaves[i].typ \in {PATTERN_STATIC, PATTERN_REGEXP}
        /\ tree[t].leaves[j].typ = PATTERN_MATCH_ALL}

MatchesBoth(t, i, j, url) ==
    /\ MatchTest(LeafRoute(tree, t, i), url)
    /\ MatchTest(LeafRoute(tree, t, j), url)

\* the handles of the Static and RegexCapture leaves of node t whose route matches the url
SpecificHandles(t, url) ==
    {tree[t].leaves[k].handle : k \in {k \in 1..Len(tree[t].leaves) :
        /\ tree[t].leaves[k].typ \in {PATTERN_STATIC, PATTERN_REGEXP}
        /\ MatchTest(LeafRoute(tree, t, k), url)}}

\* the leaves of other nodes whose route, alone in a tree, matches the url
ElsewhereMatching(t, url) == {l \in OtherMatching(tree, {}, url) : l[1] # t}

\* C4 as stated: a path that matches a Static or RegexCapture leaf and a CatchAll
\* leaf of the same node resolves to the handle of a more specific leaf of that
\* node, for any tree.
C4_AsStated ==
    lastMatch.valid =>
        \A c \in SpecificOverCatchAll :
            MatchesBoth(c[1], c[2], c[3], lastMatch.url) =>
                /\ lastMatch.ok
                /\ lastMatch.handle \in SpecificHandles(c[1], lastMatch.url)

\* C4 (amended): for a path that matches a Static or RegexCapture leaf and a CatchAll
\* leaf of the same node, Match reports found and never returns that catch-all's
\* handle, whatever the order of the two Adds; it returns the handle of a more
\* specific leaf of that node when no route of another node matches the path.
C4_SpecificBeatsCatchAll ==
    lastMatch.valid =>
        \A c \in SpecificOverCatchAll :
            MatchesBoth(c[1], c[2], c[3], lastMatch.url) =>
                /\ lastMatch.ok
                /\ lastMatch.handle # tree[c[1]].leaves[c[3]].handle
                /\ ElsewhereMatching(c[1], lastMatch.url) = {}
                       => lastMatch.handle \in SpecificHandles(c[1], lastMatch.url)

\* a state in which the catch-all was added before the more specific leaf and a path
\* matching both was resolved to the more specific leaf
C4_Witness ==
    /\ lastMatch.valid
    /\ \E c \in SpecificOverCatchAll :
          /\ MatchesBoth(c[1], c[2], c[3], lastMatch.url)
          /\ tree[c[1]].leaves[c[3]].handle < tree[c[1]].leaves[c[2]].handle
          /\ lastMatch.handle = tree[c[1]].leaves[c[2]].handle

\* C5 as stated: a RegexCapture leaf matches a segment only when its regular
\* expression matches the full segment; Match never resolves a path to a
\* RegexCapture leaf whose expression does not match the last segment in full.
C5_RegexMatchesFullSegment ==
    lastMatch.valid =>
        \A l \in LeafIds(tree) :
            LET leaf == tree[l[1]].leaves[l[2]]
                url == Normal(lastMatch.url)
            IN  (/\ leaf.typ = PATTERN_REGEXP
                 /\ SegmentCount(url) = NodeDepth(tree, l[1]) + 1
                 /\ ~FullMatch(leaf.reg, LastSegment(url)))
                    => ~(lastMatch.ok /\ lastMatch.handle = leaf.handle)

\* the CatchAll leaves under a static prefix that the url extends by one or more segments
CatchAllExtended(url) ==
    {l \in LeafIds(tree) :
        /\ tree[l[1]].leaves[l[2]].typ = PATTERN_MATCH_ALL
        /\ l[1] # 1
        /\ HasPrefixAt(<<"/">> \o Normal(url), NodePath(tree, l[1]) \o <<"/">>, 0)
        /\ Len(Normal(url)) + 1 > Len(NodePath(tree, l[1])) + 1}

\* the other leaves at or below the node of leaf l whose route matches the url
MoreSpecificMatching(l, url) ==
    {o \in OtherMatching(tree, {l}, url) : IsUnder(tree, o[1], l[1])}

\* C6: a request path that extends the prefix of a route ending in `*` by one or
\* more segments resolves to that route when no other route at or below the
\* catch-all's node matches it, and the capture is the whole remaining path
\* (of the path as Match normalises it), separators included.
C6_CatchAllTakesRemainder ==
    lastMatch.valid =>
        \A l \in CatchAllExtended(lastMatch.url) :
            MoreSpecificMatching(l, lastMatch.url) = {} =>
                /\ lastMatch.ok
                /\ lastMatch.handle = tree[l[1]].leaves[l[2]].handle
                /\ SplatKey(0) \in DOMAIN lastMatch.params
                /\ lastMatch.params[SplatKey(0)] =
                       Slice(Normal(lastMatch.url), Len(NodePath(tree, l[1])), Len(Normal(lastMatch.url)))

\* /u/* resolved /u/a/b/c and captured a/b/c
C6_Witness ==
    /\ lastMatch.valid
    /\ lastMatch.url = U_u_a_b_c
    /\ CatchAllExtended(lastMatch.url) # {}
    /\ lastMatch.ok
    /\ SplatKey(0) \in DOMAIN lastMatch.params
    /\ lastMatch.params[SplatKey(0)] = <<"a", "/", "b", "/", "c">>

\* the PathExtension leaves holding the handle the last Match returned
PathExtHit ==
    {l \in LeafIds(tree) :
        /\ tree[l[1]].leaves[l[2]].typ = PATTERN_PATH_EXT
        /\ lastMatch.ok
        /\ lastMatch.handle = tree[l[1]].leaves[l[2]].handle}

\* C7: a `*.*` leaf that matches splits the matched text at its last '.': `:path`
\* is what precedes that dot and `:ext` what follows it; with no '.' in the text
\* `:path` is the whole text and `:ext` is absent.
C7_PathExtSplitsAtLastDot ==
    lastMatch.valid =>
        \A l \in PathExtHit :
            LET text == DropSegments(Normal(lastMatch.url), NodeDepth(tree, l[1]))
                dots == {k \in 1..Len(text) : text[k] = "."}
                p == lastMatch.params
            IN  /\ PathKey \in DOMAIN p
                /\ IF dots = {}
                   THEN p[PathKey] = text /\ ExtKey \notin DOMAIN p
                   ELSE /\ ExtKey \in DOMAIN p
                        /\ p[PathKey] \o <<".">> \o p[ExtKey] = text
                        /\ \A k \in 1..Len(p[ExtKey]) : p[ExtKey][k] # "."
                /\ lastMatch.url = U_r_f_c =>
                       p[PathKey] = <<"r", ".", "f">> /\ p[ExtKey] = <<"c">>

\* `*.*` resolved /r.f.c into :path = r.f and :ext = c
C7_Witness ==
    /\ lastMatch.valid
    /\ lastMatch.url = U_r_f_c
    /\ PathExtHit # {}
    /\ lastMatch.params[PathKey] = <<"r", ".", "f">>

\* C8: adding a pattern string that was added before is a no-op: Add returns the
\* duplicate signal, the tree (its leaves, subtrees and handles) is unchanged and
\* every URL resolves to the handle and params it resolved to before.
C8_DuplicateAddIsNoOp ==
    [][(/\ added' # added
        /\ \E i \in 1..Len(added) : added[i] = lastAdd'.pattern)
          => /\ lastAdd'.dup
             /\ tree' = tree
             /\ \A url \in URLs : TreeMatch(tree', url) = TreeMatch(tree, url)]_vars

\* a pattern was added a second time and reported as a duplicate
C8_Witness ==
    /\ lastAdd.valid
    /\ lastAdd.dup
    /\ \E i \in 1..(Len(added) - 1) : added[i] = lastAdd.pattern
    /\ tree = lastAdd.before

\* whether the last segment of the pattern carries the optional marker
IsOptional(pattern) == LET seg == LastSegment(pattern) IN Len(seg) > 0 /\ seg[1] = "?"

\* a request path that carries the optional segment: the directory of the pattern
\* followed by one segment that the pattern's last segment, without its marker, matches
WithSegment(pattern, url) ==
    /\ Dir(Normal(url)) = Normal(Dir(pattern))
    /\ SegmentCount(Normal(url)) = SegmentCount(Normal(pattern))
    /\ MatchTest(<<"/">> \o TrimLeftQ(LastSegment(pattern)), <<"/">> \o LastSegment(Normal(url)))

\* the request path without the optional segment
WithoutSegment(pattern, url) == Normal(url) = Normal(Dir(pattern))

\* C9 as stated: a route whose last segment is optional, alone in its tree,
\* matches the paths with and without that segment, both with the route's
\* handle, and binds nothing when the segment is missing.
C9_OptionalMatchesBoth ==
    (lastMatch.valid /\ Len(added) = 1 /\ IsOptional(added[1])) =>
        /\ WithSegment(added[1], lastMatch.url) => (lastMatch.ok /\ lastMatch.handle = 1)
        /\ WithoutSegment(added[1], lastMatch.url) =>
               (lastMatch.ok /\ lastMatch.handle = 1 /\ DOMAIN lastMatch.params = {})

\* what the code does for C9: an optional segment that holds a wildcard
\* (added alone) matches with and without the segment
OptionalWildcardMatchesBoth ==
    (Len(added) = 1 /\ checkPattern(LastSegment(added[1])).typ # PATTERN_STATIC) =>
        C9_OptionalMatchesBoth

----------------------------------------------------------------------------
(* Helpers of the dispatch properties *)

IsWork(e) == e.ev = "work"
WorkTrace == SelectSeq(log, IsWork)

IsPrefix(a, b) == Len(a) <= Len(b) /\ SubSeq(b, 1, Len(a)) = a

\* A-pre, B-pre, ..., action, ..., B-post, A-post for a chain of n wrapping handlers
ExpectedWork(n) ==
    [i \in 1..(2 * n + 1) |->
        IF i <= n THEN Event(i - 1, "work", 1)
        ELSE IF i = n + 1 THEN Event(n, "work", 1)
        ELSE Event(2 * n + 1 - i, "work", 3)]

AllWrap == \A i \in 1..Len(ctx.handlers) : ctx.handlers[i] = H_wrap

ReturnedBefore(h, k) == \E r \in 1..(k - 1) : log[r].h = h /\ log[r].ev = "return"

\* handler h wrote to the response and returned before log position k without calling Next
WroteAndReturned(h, k) ==
    \E r \in 1..(k - 1) :
        /\ log[r].h = h /\ log[r].ev = "return"
        /\ \E w \in 1..(r - 1) : log[w].h = h /\ log[w].ev \in {"write", "header"}
        /\ ~\E n \in 1..(r - 1) : log[n].h = h /\ log[n].ev = "next"

\* the handler on top of the stack is about to return values
ReturningValues ==
    /\ Running
    /\ Top.k = "handler"
    /\ Top.pc > Len(FrameHandler(Top).ops)
    /\ Len(FrameHandler(Top).ret) > 0

ReturnedString == FrameHandler(Top).ret[Len(FrameHandler(Top).ret)].s
ReturnedStatus ==
    IF Len(FrameHandler(Top).ret) > 1 THEN FrameHandler(Top).ret[1].i ELSE StatusOK

----------------------------------------------------------------------------
(* Claims about dispatch *)

\* C1: in a chain of handlers that each do work, call Next once and do more work,
\* the work before Next runs in registration order, then the action, then the work
\* after Next in reverse order; work after Next of a handler runs only when every
\* later handler and the action have returned
C1_NextWrapsDownstream ==
    AllWrap =>
        /\ IsPrefix(WorkTrace, ExpectedWork(Len(ctx.handlers)))
        /\ ~Running => WorkTrace = ExpectedWork(Len(ctx.handlers))
        /\ \A k \in 1..Len(log) :
              (log[k].ev = "work" /\ log[k].pc = 3) =>
                  \A j \in (log[k].h + 1)..Len(ctx.handlers) : ReturnedBefore(j, k)

C1_Witness ==
    /\ AllWrap
    /\ Len(ctx.handlers) = 2
    /\ ~Running
    /\ WorkTrace = <<Event(0, "work", 1), Event(1, "work", 1), Event(2, "work", 1),
                     Event(1, "work", 3), Event(0, "work", 3)>>

\* C2: once a handler has written to the response and returned without calling
\* Next, no later handler and not the action is invoked
C2_NoInvokeAfterEarlyWrite ==
    \A k \in 1..Len(log) :
        log[k].ev = "invoke" => ~\E h \in 0..(log[k].h - 1) : WroteAndReturned(h, k)

----------------------------------------------------------------------------
(* Claims about the router *)

\* a global middleware wrote to the response of the request being served
MiddlewareWrote ==
    \E k \in 1..Len(log) : log[k].ev \in {"write", "header"} /\ log[k].h < Len(mhandlers)

\* the request being served has a route: its method has a tree and the tree matches
RequestMatches ==
    /\ req.method \in DOMAIN routers
    /\ TreeMatch(routers[req.method], req.url).handle # NilHandle

\* every handler is invoked after all the handlers before it in the list
InvokedInListOrder ==
    \A k \in 1..Len(log) :
        log[k].ev = "invoke" =>
            \A i \in 0..(log[k].h - 1) : \E j \in 1..(k - 1) : log[j].ev = "invoke" /\ log[j].h = i

\* C10: a request that matches no route (its method has no tree, or the tree has
\* no match) is dispatched over the global middleware followed by the not-found
\* handlers and the action, invoked in that order; when NotFound was never
\* called and no middleware wrote, the response is 404 "404 Not Found"
C10_NotFoundThroughChain ==
    req.active =>
        /\ req.found <=> RequestMatches
        /\ ~req.found =>
              /\ ctx.handlers = mhandlers \o notFound.handlers
              /\ ctx.action = maction
              /\ InvokedInListOrder
              /\ (~notFound.configured /\ ~Running) =>
                    \/ MiddlewareWrote
                    \/ /\ ctx.Resp.status = StatusNotFound
                       /\ ctx.Resp.code = StatusNotFound
                       /\ ctx.Resp.body = NotFoundBody

C10_Witness ==
    /\ req.active
    /\ ~req.found
    /\ routes # <<>>
    /\ req.method \notin DOMAIN routers
    /\ mhandlers = <<H_wrap>>
    /\ ~notFound.configured
    /\ ~Running
    /\ ctx.Resp.status = StatusNotFound
    /\ ctx.Resp.body = NotFoundBody

\* ---- the request injector ----

IsMapTo(e) == e.ev = "mapto"

\* the value bound to http.ResponseWriter when event k of the request happened
WriterBoundAt(k) ==
    LET Last(M) == IF M = {} THEN "rw"
                   ELSE log[CHOOSE j \in M : \A i \in M : i <= j].args[1]
    IN  Last({j \in 1..(k - 1) : IsMapTo(log[j])})

\* the handler event e is about
EventHandler(e) == handler([ctx EXCEPT !.index = e.h])

IsPanic(e) == e.ev = "panic"

\* the writer bound to http.ResponseWriter has been answered with 500
BoundWriterHas500 ==
    IF GetVal(ctx.inj, minj, "ResponseWriter") = "rec2"
    THEN req.rec2.code = StatusInternalServerError
    ELSE ctx.Resp.status = StatusInternalServerError

\* the part of C12 that does hold: a panic is caught by no activation of run
\* or Next; it ends at the innermost recovery middleware waiting in Next(),
\* which answers 500 on the bound writer, or leaves ServeHTTP when there is none
PanicPropagates ==
    log # <<>> =>
      /\ log[Len(log)].ev = "recover" => BoundWriterHas500
      /\ log[Len(log)].ev = "panic" => req.panic /\ stack = <<>>

\* C12: a panic raised in a handler is not caught by run or Next: with no
\* recovery middleware earlier in the chain it leaves ServeHTTP, with one the
\* response gets status 500; in both cases no handler is invoked after the
\* panic.
C12_PanicStopsTheChain ==
    /\ PanicPropagates
    /\ \A k \in 1..Len(log) :
          IsPanic(log[k]) => \A j \in (k + 1)..Len(log) : log[j].ev # "invoke"

\* ---- injection failures ----

\* the panic of run when Invoke returns an error
IsInvokePanic(e) == e.ev = "panic" /\ e.pc = 0

\* C13: a handler with a parameter of a type mapped neither on the Context nor
\* on the application is never invoked with a zero value: run panics instead,
\* the handler's body does not run, the index still names that handler when
\* the panic is raised, and the run that raised it invokes nothing more (it is
\* abandoned; only a recovery middleware waiting in Next(), about to return,
\* or nothing at all is left on the stack).
C13_MissingTypePanicsAtInvoke ==
    /\ \A k \in 1..Len(log) :
          log[k].ev = "invoke" => \A i \in 1..Len(log[k].args) : log[k].args[i] # NoValue
    /\ \A k \in 1..Len(log) :
          IsInvokePanic(log[k]) =>
            /\ ~Resolvable(ctx, EventHandler(log[k]))
            /\ \A j \in 1..Len(log) : log[j].h = log[k].h => j = k \/ log[j].ev = "recover"
    /\ (log # <<>> /\ IsInvokePanic(log[Len(log)])) =>
          /\ ctx.index = log[Len(log)].h
          /\ stack = <<>>
    /\ (Len(log) > 1 /\ IsInvokePanic(log[Len(log) - 1]) /\ log[Len(log)].ev = "recover") =>
          /\ ctx.index = log[Len(log) - 1].h
          /\ Top.k = "handler"
          /\ FrameHandler(Top) = H_recovery
          /\ Top.pc > Len(H_recovery.ops)

\* run has just panicked on a handler whose parameter has no value, after
\* earlier handlers of the chain did their work
C13_Witness ==
    /\ log # <<>>
    /\ IsInvokePanic(log[Len(log)])
    /\ EventHandler(log[Len(log)]) = H_needs
    /\ WorkTrace # <<>>
    /\ log[Len(log)].h < Len(ctx.handlers)

\* ---- registration of handlers ----

\* every value registered as a handler is a function
AllRegisteredCallable ==
    /\ \A i \in 1..Len(mhandlers) : validateHandler(mhandlers[i])
    /\ validateHandler(maction)
    /\ \A r \in 1..Len(routes) : \A i \in 1..Len(routes[r]) : validateHandler(routes[r][i])
    /\ \A i \in 1..Len(notFound.handlers) : validateHandler(notFound.handlers[i])
    /\ \A g \in 1..Len(groups) :
          \A i \in 1..Len(groups[g].handlers) : validateHandler(groups[g].handlers[i])

\* C14: a value that is not a function is refused by the registration call it
\* is given to, whichever the call: nothing but functions is ever registered,
\* and a registration call that panics leaves the middleware list, the action,
\* the routing table and the not-found handlers as they were.
C14_NonCallableFailsAtRegistration ==
    /\ []AllRegisteredCallable
    /\ [][reg'.panic => UNCHANGED <<mhandlers, maction, routers, routes, notFound>>]_vars

\* Use and Action do refuse a value that is not a function and change nothing
UseAndActionValidate ==
    /\ [](\A i \in 1..Len(mhandlers) : validateHandler(mhandlers[i]))
    /\ [](validateHandler(maction))
    /\ [][(reg'.panic /\ reg'.mw.op # "Handlers") =>
            UNCHANGED <<mhandlers, maction, routers, routes, notFound>>]_vars

\* ---- Handlers ----

Invoked(i) == \E k \in 1..Len(log) : log[k].ev = "invoke" /\ log[k].h = i

\* no position of the handler list is invoked twice in a request
InvokedOnce ==
    \A k \in 1..Len(log) : \A j \in 1..Len(log) :
        (log[k].ev = "invoke" /\ log[j].ev = "invoke" /\ log[k].h = log[j].h) => j = k

\* the handlers of the route the request in flight was resolved to
RequestHandlers == IF req.found THEN routes[req.handle] ELSE notFound.handlers

\* the request is over and no handler wrote or panicked
RanToTheEnd ==
    /\ req.active
    /\ ~Running
    /\ ~Written(ctx.Resp)
    /\ \A k \in 1..Len(log) : ~IsPanic(log[k])

\* C15: when the last call that set the middleware was Handlers(h1, ..., hn)
\* with functions, the middleware list is exactly h1, ..., hn, whatever Use
\* added before; a request runs them in that order, one invocation for each
\* position of the list, then the route's (or not-found) handlers and the
\* action.
C15_HandlersReplacesStack ==
    (reg.mw.op = "Handlers" /\ UsedPrefix(reg.mw.arg) = reg.mw.arg) =>
        /\ mhandlers = reg.mw.arg
        /\ req.active =>
              /\ ctx.handlers = reg.mw.arg \o RequestHandlers
              /\ ctx.action = maction
              /\ InvokedInListOrder
              /\ InvokedOnce
              /\ RanToTheEnd => \A i \in 0..Len(ctx.handlers) : Invoked(i)

\* a request was served to its end after Handlers(f, f): f ran twice, then the
\* route's handler and the action
C15_Witness ==
    /\ reg.mw = [op |-> "Handlers", arg |-> <<H_plain, H_plain>>]
    /\ RanToTheEnd
    /\ Len(SelectSeq(WorkTrace, LAMBDA e : e.h <= 1)) = 2
    /\ Invoked(Len(ctx.handlers))

\* ---- order of definition ----

LeafOf(l) == tree[l[1]].leaves[l[2]]

\* the least handle of a set of leaves: the one registered first
FirstRegistered(M) == CHOOSE h \in {LeafOf(l).handle : l \in M} :
                          \A l \in M : h <= LeafOf(l).handle

C17_HandlerListPrivate ==
    req.active => ctx.handlers = mhandlers \o RequestHandlers

\* the same holds while the middleware slice has no spare capacity, as after
\* Handlers with two handlers
PrivateWithoutSpareCapacity ==
    (req.active /\ mcap = Len(mhandlers)) => ctx.handlers = mhandlers \o RequestHandlers

\* ---- route groups ----

\* the prefixes of the first n groups of a stack, outermost first
RECURSIVE PrefixOf(_, _)
PrefixOf(gs, n) == IF n = 0 THEN EmptyStr ELSE PrefixOf(gs, n - 1) \o gs[n].pattern

\* the middleware of the first n groups of a stack, outermost first
RECURSIVE MiddlewareOf(_, _)
MiddlewareOf(gs, n) == IF n = 0 THEN <<>> ELSE MiddlewareOf(gs, n - 1) \o gs[n].handlers

\* the pattern the r-th Handle call has to register, and the handlers after
\* the global middleware of a request for it
RoutePattern(r) == PrefixOf(reg.routes[r].groups, Len(reg.routes[r].groups)) \o reg.routes[r].pattern
RouteChain(r) ==
    MiddlewareOf(reg.routes[r].groups, Len(reg.routes[r].groups)) \o reg.routes[r].handlers

\* the first Handle call that had to register the same pattern as the r-th
FirstWithPattern(r) == CHOOSE f \in 1..r :
    /\ RoutePattern(f) = RoutePattern(r)
    /\ \A e \in 1..(f - 1) : RoutePattern(e) # RoutePattern(r)

GroupedRoutes ==
    /\ Len(reg.routes) = Len(routes)
    /\ \A r \in 1..Len(routes) :
          /\ routes[r] = RouteChain(r)
          /\ TreeMatch(routers[reg.routes[r].method], RoutePattern(r)).handle = FirstWithPattern(r)
    /\ (req.active /\ req.found) =>
          /\ ctx.handlers = mhandlers \o RouteChain(req.handle)
          /\ InvokedInListOrder

\* C18: a route registered inside nested Group calls is registered under the
\* prefixes of the enclosing groups, outermost first, followed by its own
\* pattern, and a request for it runs the global middleware, then the groups'
\* middleware, outermost first, then the route's handlers; entering a group
\* only adds it on top of the group stack and leaving it only removes it, so
\* that after a Group call the stack is what it was before the call.
C18_GroupsNestPrefixAndMiddleware ==
    /\ []GroupedRoutes
    /\ [][/\ Len(groups') > Len(groups) => SubSeq(groups', 1, Len(groups)) = groups
          /\ Len(groups') < Len(groups) => groups' = SubSeq(groups, 1, Len(groups) - 1)
          /\ Len(groups') = Len(groups) => groups' = groups]_vars

\* a request for /u/x/b has been served by the route registered as /b inside
\* the group /x inside the group /u, after both Group calls returned
C18_Witness ==
    /\ req.active
    /\ req.found
    /\ req.url = U_u_x_b
    /\ ~Running
    /\ groups = <<>>
    /\ mhandlers # <<>>
    /\ Len(reg.routes[req.handle].groups) = 2
    /\ Invoked(Len(mhandlers) + 2)

\* ---- the response writer ----

\* the call the step makes on the writer
TheCall == log'[Len(log')]

\* C19: the writer of a fresh Context is not written and its status is 0; the
\* status leaves 0, and Written() becomes true, only by a WriteHeader or a
\* Write; a Write on a writer with no status records 200, on the wrapped
\* writer too, and a Write on a writer with a status keeps it.
C19_StatusSetByFirstWrite ==
    /\ [](log = <<>> => (~Written(ctx.Resp) /\ ctx.Resp.status = 0))
    /\ [](Written(ctx.Resp) <=>
            \E k \in 1..Len(log) : log[k].ev \in {"WriteHeader", "Write"})
    /\ [][/\ TheCall.ev = "Before" => ctx'.Resp.status = ctx.Resp.status
          /\ TheCall.ev = "WriteHeader" => ctx'.Resp.status = TheCall.args[1]
          /\ (TheCall.ev = "Write" /\ ~Written(ctx.Resp)) =>
                /\ ctx'.Resp.status = StatusOK
                /\ ctx'.Resp.code = StatusOK
          /\ (TheCall.ev = "Write" /\ Written(ctx.Resp)) =>
                /\ ctx'.Resp.status = ctx.Resp.status
                /\ ctx'.Resp.code = ctx.Resp.code]_vars

\* a body was written on a writer with no status set: its status is 200
C19_Witness ==
    /\ Len(log) > 1
    /\ log[1].ev = "Before"
    /\ log[2].ev = "Write"
    /\ ctx.Resp.status = StatusOK
    /\ Written(ctx.Resp)

\* C20: whenever a function registered with Before is called, Written() is
\* still false.
C20_BeforeFuncsRunBeforeWritten ==
    \A k \in 1..Len(ctx.Resp.calls) : ~ctx.Resp.calls[k].written

\* the before functions are called, with Written() false, by the first
\* WriteHeader or Write of the response
BeforeFirstWrite ==
    \A k \in 1..Len(log) :
      (log[k].ev \in {"WriteHeader", "Write"} /\
       \A j \in 1..(k - 1) : log[j].ev = "Before") =>
          /\ Len(ctx.Resp.calls) >= k - 1
          /\ \A i \in 1..(k - 1) :
                ctx.Resp.calls[i] = [f |-> log[k - i].args[1], written |-> FALSE]

----------------------------------------------------------------------------
(* Claims about the run loop and Written() *)

\* the step invokes a handler or the action
InvokeStep == Len(log') = Len(log) + 1 /\ log'[Len(log')].ev = "invoke"

\* C21: once Written() is true no handler and not the action starts executing,
\* for every chain and every use of Next() (also a Next() called after the
\* handler wrote, or called again after a downstream handler wrote)
C21_NoInvokeOnceWritten ==
    [][InvokeStep => ~Written(ctx.Resp)]_vars

\* what the run loop does guarantee: a handler is invoked on a written response
\* only as the first handler of a run entered by Next(); a run that finds the
\* response written after an invocation invokes nothing more
RunStopsWhenWritten ==
    [][(InvokeStep /\ Written(ctx.Resp)) => (log # <<>> /\ log[Len(log)].ev = "next")]_vars

\* C22: when the response is already written at the time a handler returns
\* values, the values are not written to the response
C22_ReturnedValuesNotWrittenTwice ==
    [][(ReturningValues /\ Written(ctx.Resp) /\ stack' # stack) => ctx'.Resp = ctx.Resp]_vars

\* the positions of the handler list in the order they were invoked
IsInvoke(e) == e.ev = "invoke"
InvokeTrace == [i \in 1..Len(SelectSeq(log, IsInvoke)) |-> SelectSeq(log, IsInvoke)[i].h]

\* the request is over, the response is unwritten and no handler panicked
EndedUnwritten ==
    /\ ~Running
    /\ ~Written(ctx.Resp)
    /\ \A k \in 1..Len(log) : ~IsPanic(log[k])

\* C23: when no handler writes the response and every handler returns, run
\* terminates, and by then every handler was invoked exactly once, in list
\* order, followed by exactly one invocation of the terminal action, whatever
\* number of Next() calls the handlers make
C23_UnwrittenChainRunsToTheAction ==
    /\ <>(~Running)
    /\ [](EndedUnwritten => InvokeTrace = [i \in 1..(Len(ctx.handlers) + 1) |-> i - 1])

\* a chain with a handler that calls Next() twice and one that calls it once
\* has ended unwritten
C23_Witness ==
    /\ EndedUnwritten
    /\ ctx.handlers = <<H_twice, H_wrap, H_plain>>
    /\ InvokeTrace = <<0, 1, 2, 3>>

\* C29: in one request the index at which a handler (or the action, index
\* len(handlers)) is invoked strictly increases from one invocation to the next
\* and never exceeds len(handlers), so nothing is invoked twice and handler()
\* is never called with an invalid index, whatever the handlers do with Next()
\* and the response
C29_InvokedAtMostOnce ==
    /\ \A i \in 1..Len(InvokeTrace) : InvokeTrace[i] \in 0..Len(ctx.handlers)
    /\ \A i \in 1..(Len(InvokeTrace) - 1) : InvokeTrace[i] < InvokeTrace[i + 1]
    /\ (Running /\ Top.k = "handler") => FrameHandler(Top) # PanicInvalidIndex

\* a request has ended in which Next() was called at three nesting depths,
\* once more after the chain was exhausted, and a handler wrote before Next()
C29_Witness ==
    /\ ~Running
    /\ ctx.handlers = <<H_twice, H_writenext, H_wrap>>
    /\ InvokeTrace = <<0, 1, 2, 3>>
    /\ ctx.index > Len(ctx.handlers) + 1

\* C30: handlers are invoked without gaps: when the handler at index j (or the
\* action) is invoked, every handler at a lower index was invoked before
C30_InvokedWithoutGaps ==
    \A i \in 1..Len(InvokeTrace) : InvokeTrace[i] = i - 1

----------------------------------------------------------------------------
(* Claims about the order of a node's entries *)

\* a list of entries, each with a kind and the rank of its registration, is
\* sorted by kind and, among equal kinds, by registration
SortedByKind(typs, ranks) ==
    \A i \in 1..Len(typs) : \A j \in (i + 1)..Len(typs) :
        \/ typs[i] < typs[j]
        \/ typs[i] = typs[j] /\ ranks[i] <= ranks[j]

\* leaves are ranked by the handle of the Add that made them, nodes by their
\* place in the heap
LeavesSorted(t) ==
    SortedByKind([i \in 1..Len(tree[t].leaves) |-> tree[t].leaves[i].typ],
                 [i \in 1..Len(tree[t].leaves) |-> tree[t].leaves[i].handle])
SubtreesSorted(t) ==
    SortedByKind([i \in 1..Len(tree[t].subtrees) |-> tree[tree[t].subtrees[i]].typ],
                 tree[t].subtrees)

\* C24: after any sequence of Add calls the leaves and the subtrees of every
\* node are in non-decreasing kind rank (Static < RegexCapture < PathExtension
\* < SingleCapture < CatchAll), entries of equal kind in registration order
C24_EntriesSortedByKind ==
    \A t \in 1..Len(tree) : LeavesSorted(t) /\ SubtreesSorted(t)

\* /:x/b, then /v/b, then /u/b: the root's nodes are v, u, :x (the static ones
\* first, in registration order, although :x came first)
C24_Witness ==
    /\ added = <<P_x_b, P_v_b, P_u_b>>
    /\ [i \in 1..Len(tree[1].subtrees) |-> tree[tree[1].subtrees[i]].pattern]
           = << <<"v">>, <<"u">>, <<":", "x">> >>

\* /u/*, then /u/:c, then /u/:a: the leaves of node u are :c, :a, *
LeavesKeepKindOrder ==
    added = <<P_u_star, P_u_c, P_u_a>> =>
        \E t \in 1..Len(tree) :
            [i \in 1..Len(tree[t].leaves) |-> tree[t].leaves[i].handle] = <<2, 3, 1>>

----------------------------------------------------------------------------
(* Claims about the fallback of matchSubtree *)

\* the remaining paths of more than one segment a descent of the matched url
\* can hand to a node
Remainders ==
    {r \in {DropSegments(Normal(lastMatch.url), k) : k \in 0..2} : Index(r, <<"/">>) # -1}

FirstSegment(r) == Slice(r, 0, Index(r, <<"/">>))
Rest(r) == Slice(r, Index(r, <<"/">>) + 1, Len(r))

\* the child node takes the segment and finds a match for the rest below it
SubtreeYields(id, segment, url) ==
    CASE tree[id].typ = PATTERN_STATIC ->
            tree[id].pattern = segment /\ matchNextSegment(tree, id, 0, url, NoParams).ok
      [] tree[id].typ = PATTERN_REGEXP ->
            /\ Len(FindStringSubmatch(tree[id].reg, segment)) - 1 = Len(tree[id].wildcards)
            /\ matchNextSegment(tree, id, 0, url, NoParams).ok
      [] tree[id].typ \in {PATTERN_HOLDER, PATTERN_MATCH_ALL} ->
            matchNextSegment(tree, id, 1, url, NoParams).ok
      [] OTHER -> FALSE

NoSubtreeYields(t, r) ==
    \A i \in 1..Len(tree[t].subtrees) : ~SubtreeYields(tree[t].subtrees[i], FirstSegment(r), Rest(r))

\* the result at node t for the remainder r is the leaf in slot i taking the
\* whole of r, when that leaf is `*.*` or `*`, and not-found otherwise
FallsBackTo(t, r, i) ==
    LET Of(res, leaf) ==
            IF leaf.typ = PATTERN_PATH_EXT
            THEN /\ res.ok
                 /\ res.handle = leaf.handle
                 /\ \A k \in DOMAIN PathExt(NoParams, r) : res.params[k] = PathExt(NoParams, r)[k]
            ELSE IF leaf.typ = PATTERN_MATCH_ALL
            THEN /\ res.ok
                 /\ res.handle = leaf.handle
                 /\ res.params[SplatKey(0)] = r
            ELSE ~res.ok
    IN  Of(matchNextSegment(tree, t, 0, r, NoParams), tree[t].leaves[i])

\* C25 as stated: the leaf the fallback looks at is the one registered last
C25_AsStated ==
    lastMatch.valid =>
        \A t \in 1..Len(tree) : \A r \in Remainders :
            NoSubtreeYields(t, r) =>
                IF tree[t].leaves = <<>> THEN ~matchNextSegment(tree, t, 0, r, NoParams).ok
                ELSE FallsBackTo(t, r, LastRegisteredSlot(tree[t].leaves))

\* C25 (amended): when the remaining path has more than one segment and no
\* child node yields a match, the result at the node is decided by the last
\* leaf of the node's list, which is kept in kind order: a `*.*` or `*` leaf
\* in that slot matches the whole remainder, anything else (or no leaf at all)
\* gives not-found
C25_FallbackToLastLeafInKindOrder ==
    lastMatch.valid =>
        \A t \in 1..Len(tree) : \A r \in Remainders :
            NoSubtreeYields(t, r) =>
                IF tree[t].leaves = <<>> THEN ~matchNextSegment(tree, t, 0, r, NoParams).ok
                ELSE FallsBackTo(t, r, Len(tree[t].leaves))

\* /u/* was registered before /u/:id([0-9]+): /u/a/b/c finds no child node
\* under u and is matched by the catch-all, the last leaf of u but not the
\* last registered
C25_Witness ==
    /\ added = <<P_u_star, P_u_id_re>>
    /\ lastMatch.valid
    /\ lastMatch.url = U_u_a_b_c
    /\ lastMatch.ok
    /\ lastMatch.handle = 1
    /\ lastMatch.params[SplatKey(0)] = <<"a", "/", "b", "/", "c">>

----------------------------------------------------------------------------
(* Claims about Match after a further Add *)

\* C27: a url that Match resolved before the last Add is still resolved
\* after it
C27_AddKeepsMatches ==
    (lastAdd.valid /\ lastMatch.valid /\ TreeMatch(lastAdd.before, lastMatch.url).ok)
        => lastMatch.ok

\* the names a node and the nodes above it capture
RECURSIVE NodeKeys(_, _)
NodeKeys(heap, t) ==
    IF t = 0 THEN {}
    ELSE {heap[t].wildcards[j] : j \in 1..Len(heap[t].wildcards)} \cup NodeKeys(heap, heap[t].parent)

\* the keys a match of the route of leaf l can set: the names captured along
\* the route, the splat keys, and :path and :ext
RouteKeys(l) ==
    NodeKeys(tree, l[1])
        \cup {LeafOf(l).wildcards[j] : j \in 1..Len(LeafOf(l).wildcards)}
        \cup {SplatKey(k) : k \in 0..3}
        \cup {PathKey, ExtKey}

\* C28: when Match reports found, every key of the returned Params is a
\* capture of the matched route; none is left from a subtree or leaf that was
\* tried and rejected
C28_ParamsOnlyFromMatchedRoute ==
    (lastMatch.valid /\ lastMatch.ok) =>
        \E l \in LeafIds(tree) :
            /\ LeafOf(l).handle = lastMatch.handle
            /\ DOMAIN lastMatch.params \subseteq RouteKeys(l)

----------------------------------------------------------------------------
(* Claims about rendering at the same time *)

\* the response of call g is made from the call's own template name and data
OwnOutput(g) ==
    LET c == render.calls[g]
    IN  /\ c.out.data = c.data
        /\ IF c.layout = ""
           THEN c.out.name = c.tplName
           ELSE /\ c.out.name = c.layout
                /\ c.out.yield = Closure(c.tplName, c.data)
                /\ c.out.current = c.tplName

Rendered(g) == g \in DOMAIN render.calls /\ render.calls[g].pc = "done"

\* C26: when two requests render HTML at the same time through one Renderer,
\* with or without a layout, each response is made from the template name and
\* data of its own request: the yield and current its layout calls, and the
\* template it executes, are never those of the other request
C26_RenderUsesOwnTemplate ==
    \A g \in Goroutines : Rendered(g) => OwnOutput(g)

\* it holds in development, where every call compiles a template of its own,
\* and for calls without a layout
RenderOwnInDevelopment ==
    \A g \in Goroutines : (Rendered(g) /\ render.env = DEV) => OwnOutput(g)
RenderOwnWithoutLayout ==
    \A g \in Goroutines : (Rendered(g) /\ render.calls[g].layout = "") => OwnOutput(g)

====
